---- MODULE Spec2Model ----
(***************************************************************************)
(* Text Diff: the diff engine (diff-engine.js) and the merge workflow of   *)
(* the application (main.js).                                              *)
(*                                                                         *)
(* Representation.  A character is a one-character string, a string (a    *)
(* line, a text) is a sequence of characters, "\n" is the line delimiter.  *)
(* JavaScript indices, group ids and positions are kept 0-based, so the    *)
(* k-th element of a JavaScript array arr is arr[k + 1] here.  null (and   *)
(* the -1 "no position" of main.js) is Null for numbers and NullContent    *)
(* for strings; undefined (Map.get of a missing key) is Undefined.         *)
(***************************************************************************)
EXTENDS Integers, Sequences, FiniteSets, TLC

Null == -1
NullContent == <<"null">>
Undefined == "undefined"

Min2(x, y) == IF x <= y THEN x ELSE y
Max2(x, y) == IF x >= y THEN x ELSE y

RECURSIVE Gcd(_, _)
Gcd(x, y) == IF y = 0 THEN x ELSE Gcd(y, x % y)

(* A ratio n/d (d > 0) in lowest terms; the values the engine computes are *)
(* 1 - distance/maxLen and the constants 0.4, 0.5, 0.6, 0.65, 0.7, 1.      *)
Ratio(n, d) == LET g == Gcd(n, d) IN IF n = 0 THEN <<0, 1>> ELSE <<n \div g, d \div g>>
RatGE(r, s) == r[1] * s[2] >= s[1] * r[2]
RatGT(r, s) == r[1] * s[2] > s[1] * r[2]
RatMax(r, s) == IF RatGE(r, s) THEN r ELSE s

(***************************************************************************)
(* String primitives of JavaScript used by the engine.                     *)
(***************************************************************************)
IsSpace(c) == c \in {" ", "\n", "\t"}

RECURSIVE TrimStart(_)
TrimStart(s) == IF s # <<>> /\ IsSpace(Head(s)) THEN TrimStart(Tail(s)) ELSE s

RECURSIVE TrimEnd(_)
TrimEnd(s) ==
  IF s # <<>> /\ IsSpace(s[Len(s)]) THEN TrimEnd(SubSeq(s, 1, Len(s) - 1)) ELSE s

\* String.prototype.trim
Trim(s) == TrimEnd(TrimStart(s))

\* s.replace(/\s+/g, ' ')
RECURSIVE CollapseSpaces(_)
CollapseSpaces(s) ==
  IF s = <<>> THEN <<>>
  ELSE IF IsSpace(Head(s))
       THEN <<" ">> \o CollapseSpaces(TrimStart(s))
       ELSE <<Head(s)>> \o CollapseSpaces(Tail(s))

\* text.split('\n'): always at least one line
RECURSIVE SplitLines(_, _)
SplitLines(text, cur) ==
  IF text = <<>> THEN <<cur>>
  ELSE IF Head(text) = "\n"
       THEN <<cur>> \o SplitLines(Tail(text), <<>>)
       ELSE SplitLines(Tail(text), Append(cur, Head(text)))

Split(text) == SplitLines(text, <<>>)

\* lines.join('\n')
RECURSIVE Join(_)
Join(lines) ==
  IF lines = <<>> THEN <<>>
  ELSE IF Len(lines) = 1 THEN lines[1]
       ELSE lines[1] \o <<"\n">> \o Join(Tail(lines))

(***************************************************************************)
(* diff-engine.js: Levenshtein distance and similarity ratio.              *)
(***************************************************************************)
Min3(x, y, z) == Min2(x, Min2(y, z))

\* the inner loop with the substitution left out of the minimum
RECURSIVE LevRowWithoutSubstitution(_, _, _, _, _)
LevRowWithoutSubstitution(prev, a, ch, j, row) ==
  IF j > Len(a) THEN row
  ELSE LevRowWithoutSubstitution(prev, a, ch, j + 1,
         Append(row,
           IF ch = a[j] THEN prev[j]
           ELSE Min2(row[j] + 1, prev[j + 1] + 1)))

\* the inner loop over j of levenshteinDistance: row holds matrix[i][0..j-1]
RECURSIVE LevRow(_, _, _, _, _)
LevRow(prev, a, ch, j, row) ==
  IF j > Len(a) THEN row
  ELSE LevRow(prev, a, ch, j + 1,
         Append(row,
           IF ch = a[j] THEN prev[j]
           ELSE Min3(prev[j] + 1, row[j] + 1, prev[j + 1] + 1)))

\* the outer loop over i: prev is matrix[i-1]
RECURSIVE LevRows(_, _, _, _)
LevRows(a, b, i, prev) ==
  IF i > Len(b) THEN prev
  ELSE LET row == LevRow(prev, a, b[i], 1, <<i>>)
       IN  \* Len(row) > 0 always: it only makes TLC compute row i before row i + 1
           IF Len(row) > 0 THEN LevRows(a, b, i + 1, row) ELSE row

levenshteinDistance(a, b) ==
  IF Len(a) = 0 THEN Len(b)
  ELSE IF Len(b) = 0 THEN Len(a)
  ELSE LevRows(a, b, 1, [j \in 1..(Len(a) + 1) |-> j - 1])[Len(a) + 1]

similarityRatio(a, b) ==
  IF a = <<>> /\ b = <<>> THEN Ratio(1, 1)
  ELSE IF a = <<>> \/ b = <<>> THEN Ratio(0, 1)
  ELSE LET maxLen == Max2(Len(a), Len(b))
       IN  Ratio(maxLen - levenshteinDistance(a, b), maxLen)

(***************************************************************************)
(* diff-engine.js: LCS matrix and backtracking.  dp[i][j] of the code is   *)
(* dp[i + 1][j + 1] here.                                                  *)
(***************************************************************************)
\* a row that is filled from the row above only (dp[i][j] = dp[i - 1][j] at a mismatch)
RECURSIVE LcsRowFromAbove(_, _, _, _, _)
LcsRowFromAbove(prev, ai, b, j, row) ==
  IF j > Len(b) THEN row
  ELSE LcsRowFromAbove(prev, ai, b, j + 1,
         Append(row, IF ai = b[j] THEN prev[j] + 1 ELSE prev[j + 1]))

RECURSIVE LcsRow(_, _, _, _, _)
LcsRow(prev, ai, b, j, row) ==
  IF j > Len(b) THEN row
  ELSE LcsRow(prev, ai, b, j + 1,
         Append(row,
           IF ai = b[j] THEN prev[j] + 1
           ELSE Max2(prev[j + 1], row[j])))

RECURSIVE LcsRows(_, _, _, _)
LcsRows(a, b, i, dp) ==
  IF i > Len(a) THEN dp
  ELSE LET row == LcsRow(dp[i], a[i], b, 1, <<0>>)
       IN  \* Len(row) > 0 always: it only makes TLC compute row i before row i + 1
           IF Len(row) > 0 THEN LcsRows(a, b, i + 1, Append(dp, row)) ELSE dp

computeLCS(a, b) == LcsRows(a, b, 1, <<[j \in 1..(Len(b) + 1) |-> 0]>>)

UnchangedEntry(i, j, l, r) ==
  [type |-> "unchanged", leftLine |-> i, rightLine |-> j, leftContent |-> l, rightContent |-> r]
AddedEntry(j, r) ==
  [type |-> "added", leftLine |-> Null, rightLine |-> j, leftContent |-> NullContent, rightContent |-> r]
RemovedEntry(i, l) ==
  [type |-> "removed", leftLine |-> i, rightLine |-> Null, leftContent |-> l, rightContent |-> NullContent]
ModifiedEntry(i, j, l, r, sim) ==
  [type |-> "modified", leftLine |-> i, rightLine |-> j, leftContent |-> l, rightContent |-> r,
   similarity |-> sim]

\* a backtracking loop that stops as soon as one of the two sequences is used up
\* (while (i > 0 && j > 0))
RECURSIVE BacktrackLoopUntilEitherEnds(_, _, _, _, _, _)
BacktrackLoopUntilEitherEnds(dp, a, b, i, j, diff) ==
  IF ~(i > 0 /\ j > 0) THEN diff
  ELSE IF a[i] = b[j]
       THEN BacktrackLoopUntilEitherEnds(dp, a, b, i - 1, j - 1,
                                         <<UnchangedEntry(i, j, a[i], b[j])>> \o diff)
  ELSE IF dp[i + 1][j] >= dp[i][j + 1]
       THEN BacktrackLoopUntilEitherEnds(dp, a, b, i, j - 1, <<AddedEntry(j, b[j])>> \o diff)
  ELSE BacktrackLoopUntilEitherEnds(dp, a, b, i - 1, j, <<RemovedEntry(i, a[i])>> \o diff)

\* a backtracking loop whose tie-break prefers removed
\* (dp[i][j - 1] > dp[i - 1][j] for added)
RECURSIVE BacktrackLoopPreferringRemoved(_, _, _, _, _, _)
BacktrackLoopPreferringRemoved(dp, a, b, i, j, diff) ==
  IF ~(i > 0 \/ j > 0) THEN diff
  ELSE IF i > 0 /\ j > 0 /\ a[i] = b[j]
       THEN BacktrackLoopPreferringRemoved(dp, a, b, i - 1, j - 1,
                                           <<UnchangedEntry(i, j, a[i], b[j])>> \o diff)
  ELSE IF j > 0 /\ (i = 0 \/ dp[i + 1][j] > dp[i][j + 1])
       THEN BacktrackLoopPreferringRemoved(dp, a, b, i, j - 1, <<AddedEntry(j, b[j])>> \o diff)
  ELSE BacktrackLoopPreferringRemoved(dp, a, b, i - 1, j, <<RemovedEntry(i, a[i])>> \o diff)

\* the while loop of backtrackDiff; diff.unshift(e) is <<e>> \o diff
RECURSIVE BacktrackLoop(_, _, _, _, _, _)
BacktrackLoop(dp, a, b, i, j, diff) ==
  IF ~(i > 0 \/ j > 0) THEN diff
  ELSE IF i > 0 /\ j > 0 /\ a[i] = b[j]
       THEN BacktrackLoop(dp, a, b, i - 1, j - 1, <<UnchangedEntry(i, j, a[i], b[j])>> \o diff)
  ELSE IF j > 0 /\ (i = 0 \/ dp[i + 1][j] >= dp[i][j + 1])
       THEN BacktrackLoop(dp, a, b, i, j - 1, <<AddedEntry(j, b[j])>> \o diff)
  ELSE BacktrackLoop(dp, a, b, i - 1, j, <<RemovedEntry(i, a[i])>> \o diff)

backtrackDiff(dp, a, b) == BacktrackLoop(dp, a, b, Len(a), Len(b), <<>>)

(***************************************************************************)
(* diff-engine.js: areSimilar.                                             *)
(***************************************************************************)
LowerLetters ==
  {"a","b","c","d","e","f","g","h","i","j","k","l","m",
   "n","o","p","q","r","s","t","u","v","w","x","y","z"}
UpperToLower ==
  [c \in {"A","B","C","D","E","F","G","H","I","J","K","L","M",
          "N","O","P","Q","R","S","T","U","V","W","X","Y","Z"} |->
     CASE c = "A" -> "a" [] c = "B" -> "b" [] c = "C" -> "c" [] c = "D" -> "d"
       [] c = "E" -> "e" [] c = "F" -> "f" [] c = "G" -> "g" [] c = "H" -> "h"
       [] c = "I" -> "i" [] c = "J" -> "j" [] c = "K" -> "k" [] c = "L" -> "l"
       [] c = "M" -> "m" [] c = "N" -> "n" [] c = "O" -> "o" [] c = "P" -> "p"
       [] c = "Q" -> "q" [] c = "R" -> "r" [] c = "S" -> "s" [] c = "T" -> "t"
       [] c = "U" -> "u" [] c = "V" -> "v" [] c = "W" -> "w" [] c = "X" -> "x"
       [] c = "Y" -> "y" [] c = "Z" -> "z"]

\* String.prototype.toLowerCase
toLowerCase(s) == [k \in 1..Len(s) |-> IF s[k] \in DOMAIN UpperToLower THEN UpperToLower[s[k]] ELSE s[k]]

\* [a-z-] under the i flag
IsPropChar(c) == c \in LowerLetters \/ c \in DOMAIN UpperToLower \/ c = "-"

RECURSIVE TakePropChars(_)
TakePropChars(s) ==
  IF s # <<>> /\ IsPropChar(Head(s)) THEN <<Head(s)>> \o TakePropChars(Tail(s)) ELSE <<>>

\* norm.match(/^\s*([a-z-]+)\s*:/i)?.[1]?.toLowerCase(); <<>> when there is no match
PropertyName(norm) ==
  LET s1   == TrimStart(norm)
      name == TakePropChars(s1)
      rest == TrimStart(SubSeq(s1, Len(name) + 1, Len(s1)))
  IN  IF name # <<>> /\ rest # <<>> /\ Head(rest) = ":" THEN toLowerCase(name) ELSE <<>>

RECURSIVE TakeUntilBrace(_)
TakeUntilBrace(s) ==
  IF s # <<>> /\ Head(s) # "{" THEN <<Head(s)>> \o TakeUntilBrace(Tail(s)) ELSE <<>>

\* norm.match(/^([^{]+)\s*\{/)?.[1]?.trim(); <<>> when there is no match
SelectorOf(norm) ==
  LET pre == TakeUntilBrace(norm)
  IN  IF pre # <<>> /\ Len(pre) < Len(norm) THEN Trim(pre) ELSE <<>>

NotSimilar == [similar |-> FALSE, ratio |-> Ratio(0, 1)]
ExactlySimilar == [similar |-> TRUE, ratio |-> Ratio(1, 1)]

\* the boosts with the prefix boost starting at five shared characters
BoostedRatioFromFiveCharacters(normA, normB) ==
  LET SameProperty(propA, propB) == propA # <<>> /\ propB # <<>> /\ propA = propB
      SimilarSelectors(selectorA, selectorB) ==
        selectorA # <<>> /\ selectorB # <<>>
        /\ RatGT(similarityRatio(selectorA, selectorB), Ratio(7, 10))
      SamePrefix(prefixLen) ==
        prefixLen > 4 /\ SubSeq(normA, 1, prefixLen) = SubSeq(normB, 1, prefixLen)
      PrefixBoost(ratio) ==
        IF SamePrefix(Min2(10, Min2(Len(normA), Len(normB))))
        THEN RatMax(ratio, Ratio(5, 10)) ELSE ratio
      SelectorBoost(ratio) ==
        PrefixBoost(IF SimilarSelectors(SelectorOf(normA), SelectorOf(normB))
                    THEN RatMax(ratio, Ratio(65, 100)) ELSE ratio)
      PropertyBoost(ratio) ==
        SelectorBoost(IF SameProperty(PropertyName(normA), PropertyName(normB))
                      THEN RatMax(ratio, Ratio(6, 10)) ELSE ratio)
  IN  PropertyBoost(similarityRatio(normA, normB))

\* the boosts of areSimilar applied in source order to the base ratio
BoostedRatio(normA, normB) ==
  LET SameProperty(propA, propB) == propA # <<>> /\ propB # <<>> /\ propA = propB
      SimilarSelectors(selectorA, selectorB) ==
        selectorA # <<>> /\ selectorB # <<>>
        /\ RatGT(similarityRatio(selectorA, selectorB), Ratio(7, 10))
      SamePrefix(prefixLen) ==
        prefixLen > 3 /\ SubSeq(normA, 1, prefixLen) = SubSeq(normB, 1, prefixLen)
      PrefixBoost(ratio) ==
        IF SamePrefix(Min2(10, Min2(Len(normA), Len(normB))))
        THEN RatMax(ratio, Ratio(5, 10)) ELSE ratio
      SelectorBoost(ratio) ==
        PrefixBoost(IF SimilarSelectors(SelectorOf(normA), SelectorOf(normB))
                    THEN RatMax(ratio, Ratio(65, 100)) ELSE ratio)
      PropertyBoost(ratio) ==
        SelectorBoost(IF SameProperty(PropertyName(normA), PropertyName(normB))
                      THEN RatMax(ratio, Ratio(6, 10)) ELSE ratio)
  IN  PropertyBoost(similarityRatio(normA, normB))

DefaultThreshold == Ratio(4, 10)

areSimilar(a, b, threshold) ==
  IF a = NullContent \/ b = NullContent \/ a = <<>> \/ b = <<>> THEN NotSimilar
  ELSE LET normA == CollapseSpaces(Trim(a))
           normB == CollapseSpaces(Trim(b))
       IN  IF normA = normB THEN ExactlySimilar
           ELSE IF normA = <<>> \/ normB = <<>> THEN NotSimilar
           ELSE IF normA = <<"}">> /\ normB = <<"}">> THEN ExactlySimilar
           ELSE LET Result(ratio) == [similar |-> RatGE(ratio, threshold), ratio |-> ratio]
                IN  Result(BoostedRatio(normA, normB))

(***************************************************************************)
(* diff-engine.js: findBestMatches and detectModifications.                *)
(***************************************************************************)
\* a matrix that keeps the ratio of every pair, similar or not
SimilaritiesIgnoringThreshold(removed, added) ==
  [i \in 1..Len(removed) |->
    [j \in 1..Len(added) |->
      areSimilar(removed[i].leftContent, added[j].rightContent, DefaultThreshold).ratio]]

\* similarities[i][j] (0-based i, j in the code)
Similarities(removed, added) ==
  [i \in 1..Len(removed) |->
    [j \in 1..Len(added) |->
      LET Cell(res) == IF res.similar THEN res.ratio ELSE Ratio(0, 1)
      IN  Cell(areSimilar(removed[i].leftContent, added[j].rightContent, DefaultThreshold))]]

\* one scan that also takes a later cell of the same similarity
RECURSIVE BestScanTakingLast(_, _, _, _, _, _)
BestScanTakingLast(sim, usedRemoved, usedAdded, i, j, best) ==
  IF i > Len(sim) THEN best
  ELSE IF j > Len(sim[i]) THEN BestScanTakingLast(sim, usedRemoved, usedAdded, i + 1, 1, best)
  ELSE IF (i - 1) \in usedRemoved \/ (j - 1) \in usedAdded
       THEN BestScanTakingLast(sim, usedRemoved, usedAdded, i, j + 1, best)
  ELSE IF RatGE(sim[i][j], best.ratio)
       THEN BestScanTakingLast(sim, usedRemoved, usedAdded, i, j + 1,
                     [bestI |-> i - 1, bestJ |-> j - 1, ratio |-> sim[i][j]])
  ELSE BestScanTakingLast(sim, usedRemoved, usedAdded, i, j + 1, best)

\* one scan of the double loop: best is [i, j, ratio], cells visited in row-major order
RECURSIVE BestScan(_, _, _, _, _, _)
BestScan(sim, usedRemoved, usedAdded, i, j, best) ==
  IF i > Len(sim) THEN best
  ELSE IF j > Len(sim[i]) THEN BestScan(sim, usedRemoved, usedAdded, i + 1, 1, best)
  ELSE IF (i - 1) \in usedRemoved \/ (j - 1) \in usedAdded
       THEN BestScan(sim, usedRemoved, usedAdded, i, j + 1, best)
  ELSE IF RatGT(sim[i][j], best.ratio)
       THEN BestScan(sim, usedRemoved, usedAdded, i, j + 1,
                     [bestI |-> i - 1, bestJ |-> j - 1, ratio |-> sim[i][j]])
  ELSE BestScan(sim, usedRemoved, usedAdded, i, j + 1, best)

\* the greedy while loop
RECURSIVE GreedyLoop(_, _, _, _, _, _)
GreedyLoop(sim, nRemoved, nAdded, usedRemoved, usedAdded, matches) ==
  IF ~(Cardinality(usedRemoved) < nRemoved /\ Cardinality(usedAdded) < nAdded) THEN matches
  ELSE LET best == BestScan(sim, usedRemoved, usedAdded, 1, 1,
                            [bestI |-> -1, bestJ |-> -1, ratio |-> Ratio(0, 1)])
       IN  IF RatGT(best.ratio, Ratio(0, 1))
           THEN GreedyLoop(sim, nRemoved, nAdded,
                           usedRemoved \cup {best.bestI}, usedAdded \cup {best.bestJ},
                           Append(matches, [removedIdx |-> best.bestI, addedIdx |-> best.bestJ,
                                            ratio |-> best.ratio]))
           ELSE matches

findBestMatches(removed, added) ==
  IF Len(removed) = 0 \/ Len(added) = 0 THEN <<>>
  ELSE GreedyLoop(Similarities(removed, added), Len(removed), Len(added), {}, {}, <<>>)

\* the entries of diff from position i (1-based) on whose type is t, as a block
RECURSIVE TakeBlock(_, _, _)
TakeBlock(diff, i, t) ==
  IF i <= Len(diff) /\ diff[i].type = t THEN <<diff[i]>> \o TakeBlock(diff, i + 1, t) ELSE <<>>

\* removedBlock entries, matched or not, in block order
RECURSIVE UnmatchedRemovedWithMatched(_, _, _)
UnmatchedRemovedWithMatched(block, matched, r) ==
  IF r > Len(block) THEN <<>>
  ELSE <<RemovedEntry(block[r].leftLine, block[r].leftContent)>>
       \o UnmatchedRemovedWithMatched(block, matched, r + 1)

\* removedBlock entries not matched, in block order
RECURSIVE UnmatchedRemoved(_, _, _)
UnmatchedRemoved(block, matched, r) ==
  IF r > Len(block) THEN <<>>
  ELSE (IF (r - 1) \in matched THEN <<>>
        ELSE <<RemovedEntry(block[r].leftLine, block[r].leftContent)>>)
       \o UnmatchedRemoved(block, matched, r + 1)

RECURSIVE UnmatchedAdded(_, _, _)
UnmatchedAdded(block, matched, a) ==
  IF a > Len(block) THEN <<>>
  ELSE (IF (a - 1) \in matched THEN <<>>
        ELSE <<AddedEntry(block[a].rightLine, block[a].rightContent)>>)
       \o UnmatchedAdded(block, matched, a + 1)

\* the matches turned into modified entries in the order findBestMatches found them
RECURSIVE SortedModifiedByRound(_, _, _, _)
SortedModifiedByRound(matches, removedBlock, addedBlock, r) ==
  IF r >= Len(matches) THEN <<>>
  ELSE <<ModifiedEntry(removedBlock[matches[r + 1].removedIdx + 1].leftLine,
                       addedBlock[matches[r + 1].addedIdx + 1].rightLine,
                       removedBlock[matches[r + 1].removedIdx + 1].leftContent,
                       addedBlock[matches[r + 1].addedIdx + 1].rightContent,
                       matches[r + 1].ratio)>>
       \o SortedModifiedByRound(matches, removedBlock, addedBlock, r + 1)

\* [...matches].sort((a, b) => a.removedIdx - b.removedIdx) turned into modified entries:
\* the removedIdx values are distinct, so ascending order is the scan r = 0, 1, ...
RECURSIVE SortedModified(_, _, _, _)
SortedModified(matches, removedBlock, addedBlock, r) ==
  IF r >= Len(removedBlock) THEN <<>>
  ELSE LET hit == {k \in 1..Len(matches) : matches[k].removedIdx = r}
       IN  (IF hit = {} THEN <<>>
            ELSE LET m == matches[CHOOSE k \in hit : TRUE]
                 IN  <<ModifiedEntry(removedBlock[m.removedIdx + 1].leftLine,
                                     addedBlock[m.addedIdx + 1].rightLine,
                                     removedBlock[m.removedIdx + 1].leftContent,
                                     addedBlock[m.addedIdx + 1].rightContent,
                                     m.ratio)>>)
           \o SortedModified(matches, removedBlock, addedBlock, r + 1)

\* the body of the outer while loop for the pair of blocks found at i
BlockOutput(diff, i, removedBlock, addedBlock) ==
  IF Len(removedBlock) > 0 /\ Len(addedBlock) > 0
  THEN LET Output(matches) ==
             LET matchedRemoved == {matches[k].removedIdx : k \in 1..Len(matches)}
                 matchedAdded == {matches[k].addedIdx : k \in 1..Len(matches)}
             IN  UnmatchedRemoved(removedBlock, matchedRemoved, 1)
                 \o SortedModified(matches, removedBlock, addedBlock, 0)
                 \o UnmatchedAdded(addedBlock, matchedAdded, 1)
       IN  Output(findBestMatches(removedBlock, addedBlock))
  ELSE IF Len(removedBlock) > 0 THEN UnmatchedRemoved(removedBlock, {}, 1)
  ELSE IF Len(addedBlock) > 0 THEN UnmatchedAdded(addedBlock, {}, 1)
  ELSE <<diff[i]>>

RECURSIVE DetectLoop(_, _)
DetectLoop(diff, i) ==
  IF i > Len(diff) THEN <<>>
  ELSE LET Blocks(removedBlock, addedBlock) ==
             LET consumed == Len(removedBlock) + Len(addedBlock)
             IN  BlockOutput(diff, i, removedBlock, addedBlock)
                 \o DetectLoop(diff, i + (IF consumed = 0 THEN 1 ELSE consumed))
           AfterRemoved(removedBlock) ==
             Blocks(removedBlock, TakeBlock(diff, i + Len(removedBlock), "added"))
       IN  AfterRemoved(TakeBlock(diff, i, "removed"))

detectModifications(diff) == DetectLoop(diff, 1)

CountType(diff, t) == Cardinality({k \in 1..Len(diff) : diff[k].type = t})

computeDiff(original, modified) ==
  LET Result(originalLines, modifiedLines, diff) ==
        [diff |-> diff,
         stats |-> [added |-> CountType(diff, "added"),
                    removed |-> CountType(diff, "removed"),
                    modified |-> CountType(diff, "modified"),
                    unchanged |-> CountType(diff, "unchanged"),
                    totalOriginal |-> Len(originalLines),
                    totalModified |-> Len(modifiedLines)]]
      Diff(originalLines, modifiedLines) ==
        Result(originalLines, modifiedLines,
               detectModifications(
                 backtrackDiff(computeLCS(originalLines, modifiedLines),
                               originalLines, modifiedLines)))
  IN  Diff(Split(original), Split(modified))

(***************************************************************************)
(* diff-engine.js: the data behind the two views.  Only the fields main.js *)
(* reads are kept: type (the CSS class of the rendered line), content and  *)
(* lineNumber.                                                             *)
(***************************************************************************)
SplitLeftItem(item) ==
  CASE item.type = "added" -> [type |-> "empty", content |-> <<>>, lineNumber |-> Null]
    [] item.type = "removed" -> [type |-> "removed", content |-> item.leftContent, lineNumber |-> item.leftLine]
    [] item.type = "modified" -> [type |-> "modified", content |-> item.leftContent, lineNumber |-> item.leftLine]
    [] OTHER -> [type |-> "unchanged", content |-> item.leftContent, lineNumber |-> item.leftLine]

SplitRightItem(item) ==
  CASE item.type = "added" -> [type |-> "added", content |-> item.rightContent, lineNumber |-> item.rightLine]
    [] item.type = "removed" -> [type |-> "empty", content |-> <<>>, lineNumber |-> Null]
    [] item.type = "modified" -> [type |-> "modified", content |-> item.rightContent, lineNumber |-> item.rightLine]
    [] OTHER -> [type |-> "unchanged", content |-> item.rightContent, lineNumber |-> item.rightLine]

generateSplitDiff(diff) ==
  [left |-> [k \in 1..Len(diff) |-> SplitLeftItem(diff[k])],
   right |-> [k \in 1..Len(diff) |-> SplitRightItem(diff[k])]]

UnifiedLine(t, content, l, r) == [type |-> t, content |-> content, leftLine |-> l, rightLine |-> r]

RECURSIVE generateUnifiedDiff(_)
generateUnifiedDiff(diff) ==
  IF diff = <<>> THEN <<>>
  ELSE LET item == Head(diff)
       IN  (CASE item.type = "added" ->
                   <<UnifiedLine("added", item.rightContent, Null, item.rightLine)>>
              [] item.type = "removed" ->
                   <<UnifiedLine("removed", item.leftContent, item.leftLine, Null)>>
              [] item.type = "modified" ->
                   <<UnifiedLine("removed", item.leftContent, item.leftLine, Null),
                     UnifiedLine("added", item.rightContent, Null, item.rightLine)>>
              [] OTHER ->
                   <<UnifiedLine("unchanged", item.leftContent, item.leftLine, item.rightLine)>>)
           \o generateUnifiedDiff(Tail(diff))

(***************************************************************************)
(* diff-engine.js: inline differences.  A segment is { text, changed }.    *)
(***************************************************************************)
UndefinedContent == <<"undefined">>

\* if (!str) str = '': null, undefined and '' are the falsy values of the inputs
OrEmpty(str) == IF str \in {NullContent, UndefinedContent, <<>>} THEN <<>> ELSE str

\* String.prototype.substring(start, end) on 0-based bounds: clamped, swapped if start > end
Substring(str, start, end) ==
  LET Clamp(n) == Max2(0, Min2(n, Len(str)))
      Between(from, to) == SubSeq(str, from + 1, to)
  IN  Between(Min2(Clamp(start), Clamp(end)), Max2(Clamp(start), Clamp(end)))

Segment(text, changed) == [text |-> text, changed |-> changed]

\* the first while loop of findInlineDiff
RECURSIVE PrefixLoop(_, _, _, _)
PrefixLoop(oldStr, newStr, minLen, prefixLen) ==
  IF prefixLen < minLen /\ oldStr[prefixLen + 1] = newStr[prefixLen + 1]
  THEN PrefixLoop(oldStr, newStr, minLen, prefixLen + 1)
  ELSE prefixLen

\* a suffix loop that may run into the common prefix (suffixLen < minLen)
RECURSIVE SuffixLoopOverlapping(_, _, _, _, _)
SuffixLoopOverlapping(oldStr, newStr, minLen, prefixLen, suffixLen) ==
  IF suffixLen < minLen
     /\ oldStr[Len(oldStr) - suffixLen] = newStr[Len(newStr) - suffixLen]
  THEN SuffixLoopOverlapping(oldStr, newStr, minLen, prefixLen, suffixLen + 1)
  ELSE suffixLen

\* the second while loop of findInlineDiff
RECURSIVE SuffixLoop(_, _, _, _, _)
SuffixLoop(oldStr, newStr, minLen, prefixLen, suffixLen) ==
  IF suffixLen < minLen - prefixLen
     /\ oldStr[Len(oldStr) - suffixLen] = newStr[Len(newStr) - suffixLen]
  THEN SuffixLoop(oldStr, newStr, minLen, prefixLen, suffixLen + 1)
  ELSE suffixLen

\* the pushes of findInlineDiff: a part is pushed when it is not the empty string
InlineResult(prefix, middle, suffix) ==
  (IF prefix # <<>> THEN <<Segment(prefix, FALSE)>> ELSE <<>>)
  \o (IF middle # <<>> THEN <<Segment(middle, TRUE)>> ELSE <<>>)
  \o (IF suffix # <<>> THEN <<Segment(suffix, FALSE)>> ELSE <<>>)

findInlineDiff(oldInput, newInput) ==
  LET Identical(oldStr, newStr, oldResult, newResult) ==
        IF Len(oldResult) = 0 /\ Len(newResult) = 0
        THEN [oldResult |-> <<Segment(oldStr, FALSE)>>, newResult |-> <<Segment(newStr, FALSE)>>]
        ELSE [oldResult |-> oldResult, newResult |-> newResult]
      Parts(oldStr, newStr, prefixLen, suffixLen) ==
        Identical(oldStr, newStr,
          InlineResult(Substring(oldStr, 0, prefixLen),
                       Substring(oldStr, prefixLen, Len(oldStr) - suffixLen),
                       Substring(oldStr, Len(oldStr) - suffixLen, Len(oldStr))),
          InlineResult(Substring(oldStr, 0, prefixLen),
                       Substring(newStr, prefixLen, Len(newStr) - suffixLen),
                       Substring(oldStr, Len(oldStr) - suffixLen, Len(oldStr))))
      Suffix(oldStr, newStr, minLen, prefixLen) ==
        Parts(oldStr, newStr, prefixLen, SuffixLoop(oldStr, newStr, minLen, prefixLen, 0))
      Prefix(oldStr, newStr, minLen) ==
        Suffix(oldStr, newStr, minLen, PrefixLoop(oldStr, newStr, minLen, 0))
      Strings(oldStr, newStr) == Prefix(oldStr, newStr, Min2(Len(oldStr), Len(newStr)))
  IN  Strings(OrEmpty(oldInput), OrEmpty(newInput))

\* tokenize of findInlineDiffWords: the loop over the characters and the final push
RECURSIVE TokenizeLoop(_, _, _, _, _)
TokenizeLoop(str, k, current, isSpace, tokens) ==
  IF k > Len(str) THEN (IF current # <<>> THEN Append(tokens, current) ELSE tokens)
  ELSE IF current # <<>> /\ IsSpace(str[k]) # isSpace
       THEN TokenizeLoop(str, k + 1, <<str[k]>>, IsSpace(str[k]), Append(tokens, current))
       ELSE TokenizeLoop(str, k + 1, Append(current, str[k]), IsSpace(str[k]), tokens)

tokenize(str) == TokenizeLoop(str, 1, <<>>, FALSE, <<>>)

\* the while loop of findInlineDiffWords
RECURSIVE InlineWordsLoop(_, _, _, _, _, _, _)
InlineWordsLoop(dp, oldTokens, newTokens, i, j, oldResult, newResult) ==
  IF ~(i > 0 \/ j > 0) THEN [oldResult |-> oldResult, newResult |-> newResult]
  ELSE IF i > 0 /\ j > 0 /\ oldTokens[i] = newTokens[j]
       THEN InlineWordsLoop(dp, oldTokens, newTokens, i - 1, j - 1,
                            <<Segment(oldTokens[i], FALSE)>> \o oldResult,
                            <<Segment(newTokens[j], FALSE)>> \o newResult)
  ELSE IF j > 0 /\ (i = 0 \/ dp[i + 1][j] >= dp[i][j + 1])
       THEN InlineWordsLoop(dp, oldTokens, newTokens, i, j - 1,
                            oldResult, <<Segment(newTokens[j], TRUE)>> \o newResult)
  ELSE InlineWordsLoop(dp, oldTokens, newTokens, i - 1, j,
                       <<Segment(oldTokens[i], TRUE)>> \o oldResult, newResult)

\* merge of findInlineDiffWords: consecutive segments with the same flag are joined
RECURSIVE MergeLoop(_, _, _)
MergeLoop(arr, k, merged) ==
  IF k > Len(arr) THEN merged
  ELSE IF Len(merged) > 0 /\ merged[Len(merged)].changed = arr[k].changed
       THEN MergeLoop(arr, k + 1,
                      [merged EXCEPT ![Len(merged)].text = @ \o arr[k].text])
       ELSE MergeLoop(arr, k + 1, Append(merged, arr[k]))

merge(arr) == MergeLoop(arr, 1, <<>>)

findInlineDiffWords(oldInput, newInput) ==
  LET Merged(result) ==
        [oldResult |-> merge(result.oldResult), newResult |-> merge(result.newResult)]
      Tokens(oldTokens, newTokens) ==
        Merged(InlineWordsLoop(computeLCS(oldTokens, newTokens), oldTokens, newTokens,
                               Len(oldTokens), Len(newTokens), <<>>, <<>>))
  IN  Tokens(tokenize(OrEmpty(oldInput)), tokenize(OrEmpty(newInput)))

(***************************************************************************)
(* json-diff.js: the diff tree of two JSON values.                         *)
(*                                                                         *)
(* A JavaScript value is a record [t, v, items, props]: t is what          *)
(* getValueType returns for it, v the literal of a primitive, items the    *)
(* elements of an array and props the own properties of an object (a       *)
(* function from keys to values).  Keys and paths are strings, that is     *)
(* sequences of characters.  A diff node is a record with the properties   *)
(* the code gives it, so a property the code does not set is not in the    *)
(* DOMAIN of the node; children is [isNull, nodes].                        *)
(***************************************************************************)
JsValue(t, v, items, props) == [t |-> t, v |-> v, items |-> items, props |-> props]

JsUndefined == JsValue("undefined", <<>>, <<>>, <<>>)
JsNull == JsValue("null", <<>>, <<>>, <<>>)
JsNumber(literal) == JsValue("number", literal, <<>>, <<>>)
JsString(literal) == JsValue("string", literal, <<>>, <<>>)
JsArray(items) == JsValue("array", <<>>, items, <<>>)
JsObject(props) == JsValue("object", <<>>, <<>>, props)

\* Object.prototype.valueOf, the value obj['valueOf'] of an object without that own key
ValueOfKey == <<"v", "a", "l", "u", "e", "O", "f">>
JsFunction == JsValue("function", ValueOfKey, <<>>, <<>>)

getValueType(value) == value.t

\* Object.keys(obj)
ObjectKeys(obj) == DOMAIN obj.props

\* obj[key]: the own property, else the property inherited from Object.prototype
GetProperty(obj, key) ==
  IF key \in ObjectKeys(obj) THEN obj.props[key]
  ELSE IF key = ValueOfKey THEN JsFunction
  ELSE JsUndefined

\* arr[i], 0-based
GetItem(arr, i) == IF i < Len(arr.items) THEN arr.items[i + 1] ELSE JsUndefined

\* the characters of the keys in the order of their UTF-16 code units
CodeUnitOrder ==
  <<".", "0", "1", "2", "3", "4", "5", "6", "7", "8", "9", "O", "[", "]",
    "a", "b", "c", "e", "f", "l", "u", "v">>

CharCode(c) == CHOOSE n \in 1..Len(CodeUnitOrder) : CodeUnitOrder[n] = c

\* a <= b in the order Array.prototype.sort() uses for strings
RECURSIVE KeyLE(_, _)
KeyLE(a, b) ==
  IF a = <<>> THEN TRUE
  ELSE IF b = <<>> THEN FALSE
  ELSE IF Head(a) = Head(b) THEN KeyLE(Tail(a), Tail(b))
  ELSE CharCode(Head(a)) < CharCode(Head(b))

\* Array.from(keys).sort()
RECURSIVE SortKeys(_)
SortKeys(keys) ==
  IF keys = {} THEN <<>>
  ELSE LET First(least) == <<least>> \o SortKeys(keys \ {least})
       IN  First(CHOOSE k \in keys : \A other \in keys : KeyLE(k, other))

\* `${i}`
RECURSIVE Decimal(_)
Decimal(i) ==
  IF i < 10 THEN <<CodeUnitOrder[i + 2]>>
  ELSE Decimal(i \div 10) \o <<CodeUnitOrder[(i % 10) + 2]>>

\* path ? `${path}.${key}` : key
KeyPath(path, key) == IF path # <<>> THEN path \o <<".">> \o key ELSE key

\* `${path}[${i}]`
IndexPath(path, i) == path \o <<"[">> \o Decimal(i) \o <<"]">>

NullChildren == [isNull |-> TRUE, nodes |-> <<>>]
Children(nodes) == [isNull |-> FALSE, nodes |-> nodes]

\* compareJSON returned null
NoNode == [type |-> "null"]

\* { key, ...child } and { key: i, index: i, ...child }
WithKey(child, key) ==
  [name \in (DOMAIN child) \cup {"key"} |-> IF name \in DOMAIN child THEN child[name] ELSE key]
WithIndex(child, i) ==
  [name \in (DOMAIN child) \cup {"key", "index"} |->
     IF name \in DOMAIN child THEN child[name] ELSE i]

IsContainerType(t) == t \in {"object", "array"}

\* buildAddedTree (side = "added") and buildRemovedTree (side = "removed")
RECURSIVE buildSideTree(_, _, _)
buildSideTree(side, value, path) ==
  LET SideNode(item, itemPath) ==
        [type |-> side, path |-> itemPath,
         oldValue |-> IF side = "added" THEN JsUndefined ELSE item,
         newValue |-> IF side = "added" THEN item ELSE JsUndefined,
         valueType |-> getValueType(item),
         children |-> buildSideTree(side, item, itemPath)]
      Keyed(keys) ==
        [k \in 1..Len(keys) |->
           WithKey(SideNode(value.props[keys[k]], KeyPath(path, keys[k])), keys[k])]
  IN  IF ~IsContainerType(getValueType(value)) THEN NullChildren
      ELSE IF getValueType(value) = "array"
      THEN Children([i \in 1..Len(value.items) |->
                       WithIndex(SideNode(value.items[i], IndexPath(path, i - 1)), i - 1)])
      ELSE Children(Keyed(SortKeys(ObjectKeys(value))))

buildAddedTree(value, path) == buildSideTree("added", value, path)
buildRemovedTree(value, path) == buildSideTree("removed", value, path)

\* a container whose hasChanges looks at the children without children only
ContainerNodeByLeaves(oldVal, newVal, path, valueType, children) ==
  LET Result(hasChanges) ==
        [type |-> IF hasChanges THEN "modified" ELSE "unchanged", path |-> path,
         oldValue |-> oldVal, newValue |-> newVal, valueType |-> valueType,
         children |-> Children(children), hasChanges |-> hasChanges]
  IN  Result(\E k \in 1..Len(children) :
               children[k].children.isNull /\ children[k].type # "unchanged")

\* the node compareObjects and compareArrays return
ContainerNode(oldVal, newVal, path, valueType, children) ==
  LET Result(hasChanges) ==
        [type |-> IF hasChanges THEN "modified" ELSE "unchanged", path |-> path,
         oldValue |-> oldVal, newValue |-> newVal, valueType |-> valueType,
         children |-> Children(children), hasChanges |-> hasChanges]
  IN  Result(\E k \in 1..Len(children) : children[k].type # "unchanged")

\* a type test that lets two containers of different types through
TypeChangedOfPrimitive(oldType, newType) ==
  oldType # newType /\ ~(IsContainerType(oldType) /\ IsContainerType(newType))

\* oldType !== newType
TypeChanged(oldType, newType) == oldType # newType

RECURSIVE compareJSON(_, _, _)
RECURSIVE ObjectChildren(_, _, _, _, _)
RECURSIVE ArrayChildren(_, _, _, _, _)

\* the for loop of compareObjects: a child is pushed unless compareJSON returned null
ObjectChildren(oldObj, newObj, path, sortedKeys, k) ==
  IF k > Len(sortedKeys) THEN <<>>
  ELSE LET Push(key, child) ==
             (IF child # NoNode THEN <<WithKey(child, key)>> ELSE <<>>)
             \o ObjectChildren(oldObj, newObj, path, sortedKeys, k + 1)
           Compare(key) ==
             Push(key, compareJSON(GetProperty(oldObj, key), GetProperty(newObj, key),
                                   KeyPath(path, key)))
       IN  Compare(sortedKeys[k])

\* the for loop of compareArrays
ArrayChildren(oldArr, newArr, path, maxLen, i) ==
  IF ~(i < maxLen) THEN <<>>
  ELSE LET Push(child) ==
             (IF child # NoNode THEN <<WithIndex(child, i)>> ELSE <<>>)
             \o ArrayChildren(oldArr, newArr, path, maxLen, i + 1)
       IN  Push(compareJSON(GetItem(oldArr, i), GetItem(newArr, i), IndexPath(path, i)))

compareObjects(oldObj, newObj, path) ==
  ContainerNode(oldObj, newObj, path, "object",
                ObjectChildren(oldObj, newObj, path,
                               SortKeys(ObjectKeys(oldObj) \cup ObjectKeys(newObj)), 1))

compareArrays(oldArr, newArr, path) ==
  ContainerNode(oldArr, newArr, path, "array",
                ArrayChildren(oldArr, newArr, path,
                              Max2(Len(oldArr.items), Len(newArr.items)), 0))

compareJSON(oldVal, newVal, path) ==
  LET oldType == getValueType(oldVal)
      newType == getValueType(newVal)
      Leaf(type) ==
        [type |-> type, path |-> path, oldValue |-> oldVal, newValue |-> newVal,
         valueType |-> oldType, children |-> NullChildren]
  IN  IF oldVal = JsUndefined /\ newVal = JsUndefined THEN NoNode
      ELSE IF oldVal = JsUndefined
      THEN [type |-> "added", path |-> path, oldValue |-> JsUndefined, newValue |-> newVal,
            valueType |-> newType,
            children |-> IF IsContainerType(newType) THEN buildAddedTree(newVal, path)
                         ELSE NullChildren]
      ELSE IF newVal = JsUndefined
      THEN [type |-> "removed", path |-> path, oldValue |-> oldVal, newValue |-> JsUndefined,
            valueType |-> oldType,
            children |-> IF IsContainerType(oldType) THEN buildRemovedTree(oldVal, path)
                         ELSE NullChildren]
      ELSE IF TypeChanged(oldType, newType)
      THEN [type |-> "modified", path |-> path, oldValue |-> oldVal, newValue |-> newVal,
            oldType |-> oldType, newType |-> newType, valueType |-> newType,
            children |-> NullChildren]
      ELSE IF oldType = "object" THEN compareObjects(oldVal, newVal, path)
      ELSE IF oldType = "array" THEN compareArrays(oldVal, newVal, path)
      ELSE IF oldVal = newVal THEN Leaf("unchanged")
      ELSE Leaf("modified")

\* traverse of countChanges: counts is the running count; !n.children is true of null
\* and false of every array, the empty one included
RECURSIVE traverseChanges(_, _)
traverseChanges(n, counts) ==
  LET RECURSIVE Each(_, _, _)
      Each(nodes, k, acc) ==
        IF k > Len(nodes) THEN acc ELSE Each(nodes, k + 1, traverseChanges(nodes[k], acc))
      Counted(counted) ==
        IF n.children.isNull THEN counted ELSE Each(n.children.nodes, 1, counted)
  IN  IF n = NoNode THEN counts
      ELSE Counted(IF n.type \in {"added", "removed", "modified"} /\ n.children.isNull
                   THEN [counts EXCEPT ![n.type] = @ + 1]
                   ELSE counts)

countChanges(node) == traverseChanges(node, [added |-> 0, removed |-> 0, modified |-> 0])

(***************************************************************************)
(* json-diff-renderer.js: getDiffStats.                                    *)
(***************************************************************************)
ZeroStats == [added |-> 0, removed |-> 0, modified |-> 0, unchanged |-> 0]

\* traverse that counts every node, with or without children
RECURSIVE traverseCountingAll(_, _)
traverseCountingAll(node, stats) ==
  LET RECURSIVE Each(_, _, _)
      Each(nodes, k, acc) ==
        IF k > Len(nodes) THEN acc ELSE Each(nodes, k + 1, traverseCountingAll(nodes[k], acc))
      Bucket(type) == IF type \in {"added", "removed", "modified"} THEN type ELSE "unchanged"
  IN  IF node = NoNode THEN stats
      ELSE Each(node.children.nodes, 1, [stats EXCEPT ![Bucket(node.type)] = @ + 1])

\* traverse of getDiffStats: stats is the running count
RECURSIVE traverse(_, _)
traverse(node, stats) ==
  LET RECURSIVE Each(_, _, _)
      Each(nodes, k, acc) ==
        IF k > Len(nodes) THEN acc ELSE Each(nodes, k + 1, traverse(nodes[k], acc))
      Bucket(type) == IF type \in {"added", "removed", "modified"} THEN type ELSE "unchanged"
      Counted(counted) ==
        IF node.children.isNull THEN counted ELSE Each(node.children.nodes, 1, counted)
  IN  IF node = NoNode THEN stats
      ELSE Counted(IF node.children.isNull \/ Len(node.children.nodes) = 0
                   THEN [stats EXCEPT ![Bucket(node.type)] = @ + 1]
                   ELSE stats)

getDiffStats(diffTree) == traverse(diffTree, ZeroStats)

(***************************************************************************)
(* main.js: the application state.                                         *)
(*                                                                         *)
(* The module-level variables of main.js keep their names.  Of the DOM,    *)
(* the model keeps what the handlers read back: whether #mergePopup and    *)
(* #diffSection carry the class "hidden" and the popup's                   *)
(* dataset.changeType.  The rendered lines of the two views are not        *)
(* variables: they are read (buildDiffIndices, buildDiffGroups) only in    *)
(* handlers that rendered them from diffResult just before, so they are    *)
(* computed where they are read.  The two text areas are the inputs of     *)
(* handleCompare.  timers is the queue of callbacks scheduled by           *)
(* setTimeout(..., 300); lastOp records the last handler that ran.         *)
(***************************************************************************)
VARIABLES currentView, diffResult, diffIndices, currentDiffPosition, diffGroups,
          currentGroupPosition, mergeDecisions, activeGroupId,
          popupHidden, changeType, diffSectionHidden, timers, lastOp,
          seqA, seqB, rawDiff

appVars == <<currentView, diffResult, diffIndices, currentDiffPosition, diffGroups,
             currentGroupPosition, mergeDecisions, activeGroupId,
             popupHidden, changeType, diffSectionHidden, timers>>
vars == <<currentView, diffResult, diffIndices, currentDiffPosition, diffGroups,
          currentGroupPosition, mergeDecisions, activeGroupId,
          popupHidden, changeType, diffSectionHidden, timers, lastOp,
          seqA, seqB, rawDiff>>

\* new Map()
EmptyMap == [k \in {} |-> Undefined]
\* Map.prototype.get / has / set / delete
MapGet(m, k) == IF k \in DOMAIN m THEN m[k] ELSE Undefined
MapHas(m, k) == k \in DOMAIN m
MapSet(m, k, v) == [x \in (DOMAIN m) \cup {k} |-> IF x = k THEN v ELSE m[x]]
MapDelete(m, k) == [x \in (DOMAIN m) \ {k} |-> m[x]]

\* diffResult = null
NoDiffResult ==
  [present |-> FALSE, diff |-> <<>>,
   stats |-> [added |-> 0, removed |-> 0, modified |-> 0, unchanged |-> 0,
              totalOriginal |-> 0, totalModified |-> 0]]

\* the program state as one value, so that a handler can call other functions in sequence
State ==
  [currentView |-> currentView, diffResult |-> diffResult, diffIndices |-> diffIndices,
   currentDiffPosition |-> currentDiffPosition, diffGroups |-> diffGroups,
   currentGroupPosition |-> currentGroupPosition, mergeDecisions |-> mergeDecisions,
   activeGroupId |-> activeGroupId, popupHidden |-> popupHidden, changeType |-> changeType,
   diffSectionHidden |-> diffSectionHidden, timers |-> timers]

InitialState ==
  [currentView |-> "split", diffResult |-> NoDiffResult, diffIndices |-> <<>>,
   currentDiffPosition |-> -1, diffGroups |-> <<>>, currentGroupPosition |-> -1,
   mergeDecisions |-> EmptyMap, activeGroupId |-> Null, popupHidden |-> TRUE,
   changeType |-> Undefined, diffSectionHidden |-> TRUE, timers |-> <<>>]

(***************************************************************************)
(* main.js: rendering.  A rendered line is the pair of the diff classes of *)
(* the line in the container (left) and in the right container (right);    *)
(* right is "none" in the unified view, where rightContainer is null.      *)
(***************************************************************************)
\* getGroupIdForLine
RECURSIVE GroupIdFrom(_, _, _)
GroupIdFrom(groups, g, lineIndex) ==
  IF g > Len(groups) THEN Null
  ELSE IF \E k \in 1..Len(groups[g].lines) : groups[g].lines[k] = lineIndex THEN groups[g].id
  ELSE GroupIdFrom(groups, g + 1, lineIndex)

getGroupIdForLine(groups, lineIndex) == GroupIdFrom(groups, 1, lineIndex)

\* decision = groupId !== null ? mergeDecisions.get(groupId) : null
\* (null and undefined take the same branches everywhere it is used)
DecisionForLine(groups, decisions, lineIndex) ==
  LET groupId == getGroupIdForLine(groups, lineIndex)
  IN  IF groupId # Null THEN MapGet(decisions, groupId) ELSE Undefined

\* the lines generateUnifiedDiffWithMergeDecisions pushes for entry i (0-based)
UnifiedLinesWithDecision(item, decision) ==
  LET isResolved == decision # Undefined
  IN  CASE item.type = "unchanged" ->
             <<UnifiedLine("unchanged", item.leftContent, item.leftLine, item.rightLine)>>
        [] item.type = "removed" ->
             IF isResolved
             THEN IF decision \in {"restore", "original", "both"}
                  THEN <<UnifiedLine("resolved-kept", item.leftContent, item.leftLine, Null)>>
                  ELSE <<UnifiedLine("resolved-removed", item.leftContent, item.leftLine, Null)>>
             ELSE <<UnifiedLine("removed", item.leftContent, item.leftLine, Null)>>
        [] item.type = "added" ->
             IF isResolved
             THEN IF decision \in {"discard", "original"}
                  THEN <<UnifiedLine("resolved-discarded", item.rightContent, Null, item.rightLine)>>
                  ELSE <<UnifiedLine("resolved-kept", item.rightContent, Null, item.rightLine)>>
             ELSE <<UnifiedLine("added", item.rightContent, Null, item.rightLine)>>
        [] item.type = "modified" ->
             IF isResolved
             THEN IF decision = "original"
                  THEN <<UnifiedLine("resolved-kept", item.leftContent, item.leftLine, Null)>>
                  ELSE IF decision = "both"
                  THEN <<UnifiedLine("resolved-kept", item.leftContent, item.leftLine, Null),
                         UnifiedLine("resolved-kept", item.rightContent, Null, item.rightLine)>>
                  ELSE <<UnifiedLine("resolved-kept", item.rightContent, Null, item.rightLine)>>
             ELSE <<UnifiedLine("removed", item.leftContent, item.leftLine, Null),
                    UnifiedLine("added", item.rightContent, Null, item.rightLine)>>

RECURSIVE UnifiedWithDecisionsFrom(_, _, _, _)
UnifiedWithDecisionsFrom(diff, groups, decisions, i) ==
  IF i >= Len(diff) THEN <<>>
  ELSE UnifiedLinesWithDecision(diff[i + 1], DecisionForLine(groups, decisions, i))
       \o UnifiedWithDecisionsFrom(diff, groups, decisions, i + 1)

generateUnifiedDiffWithMergeDecisions(diff, groups, decisions) ==
  UnifiedWithDecisionsFrom(diff, groups, decisions, 0)

\* the .diff-line elements buildDiffIndices and buildDiffGroups query, given the
\* content of #unifiedContent
RenderedLines(view, diff, unifiedContent) ==
  IF view = "split"
  THEN [k \in 1..Len(diff) |->
         [left |-> SplitLeftItem(diff[k]).type, right |-> SplitRightItem(diff[k]).type]]
  ELSE [k \in 1..Len(unifiedContent) |-> [left |-> unifiedContent[k].type, right |-> "none"]]

leftIsDiff(line) == line.left \in {"removed", "modified"}
rightIsDiff(line) == line.right \in {"added", "modified"}

\* diffType of buildDiffGroups; Undefined stands for null
LineDiffType(line) ==
  IF line.left = "removed" THEN "removed"
  ELSE IF line.left = "modified" THEN "modified"
  ELSE IF line.right = "added" THEN "added"
  ELSE Undefined

(***************************************************************************)
(* main.js: buildDiffIndices and buildDiffGroups.                          *)
(***************************************************************************)
RECURSIVE DiffIndicesFrom(_, _)
DiffIndicesFrom(lines, index) ==
  IF index >= Len(lines) THEN <<>>
  ELSE (IF leftIsDiff(lines[index + 1]) \/ rightIsDiff(lines[index + 1]) THEN <<index>> ELSE <<>>)
       \o DiffIndicesFrom(lines, index + 1)

buildDiffIndices(s, lines) ==
  [s EXCEPT !.diffIndices = DiffIndicesFrom(lines, 0), !.currentDiffPosition = -1]

NewGroup(id, index, diffType) ==
  [id |-> id, startIndex |-> index, endIndex |-> index, lines |-> <<index>>,
   diffIndices |-> <<index>>, type |-> diffType]

ExtendGroup(group, index) ==
  [group EXCEPT !.lines = Append(@, index), !.diffIndices = Append(@, index), !.endIndex = index]

\* lines.forEach of buildDiffGroups followed by the push of the last group;
\* currentGroup is <<>> for null and <<group>> otherwise
RECURSIVE GroupLoop(_, _, _, _, _)
GroupLoop(lines, index, currentGroup, groupId, groups) ==
  IF index >= Len(lines)
  THEN IF currentGroup # <<>> THEN Append(groups, currentGroup[1]) ELSE groups
  ELSE LET line == lines[index + 1]
           isDiff == leftIsDiff(line) \/ rightIsDiff(line)
           diffType == LineDiffType(line)
       IN  IF isDiff /\ diffType # Undefined
           THEN IF currentGroup = <<>>
                THEN GroupLoop(lines, index + 1, <<NewGroup(groupId, index, diffType)>>,
                               groupId + 1, groups)
                ELSE IF currentGroup[1].type = diffType
                THEN GroupLoop(lines, index + 1, <<ExtendGroup(currentGroup[1], index)>>,
                               groupId, groups)
                ELSE GroupLoop(lines, index + 1, <<NewGroup(groupId, index, diffType)>>,
                               groupId + 1, Append(groups, currentGroup[1]))
           ELSE GroupLoop(lines, index + 1, <<>>, groupId,
                          IF currentGroup # <<>> THEN Append(groups, currentGroup[1]) ELSE groups)

GroupsOf(lines) == GroupLoop(lines, 0, <<>>, 0, <<>>)

buildDiffGroups(s, lines) ==
  [s EXCEPT !.diffGroups = GroupsOf(lines), !.currentGroupPosition = -1]

(***************************************************************************)
(* The texts typed into the two text areas.                                *)
(***************************************************************************)
TextAbX == <<"a", "b", "\n", "x">>
TextAcXZ == <<"a", "c", "\n", "x", "\n", "z">>

\* the contents of the two text areas when a comparison is started
Originals == {<<>>, TextAbX}
Modifieds == {<<>>, TextAcXZ}

(***************************************************************************)
(* main.js: handleCompare, switchView, showInput.                          *)
(***************************************************************************)
IsBlank(text) == Trim(text) = <<>>

\* the early return of handleCompare: both text areas blank, the samples are loaded
ComparesNothing(original, modified) == IsBlank(original) /\ IsBlank(modified)

\* a comparison that keeps the merge state of the previous diff
handleCompareKeepingDecisions(s, original, modified) ==
  IF ComparesNothing(original, modified) THEN s
  ELSE LET Shown(s2) == [s2 EXCEPT !.diffSectionHidden = FALSE]
           Built(s1, lines) == Shown(buildDiffGroups(buildDiffIndices(s1, lines), lines))
           Rendered(result) ==
             Built([s EXCEPT !.diffResult = [present |-> TRUE, diff |-> result.diff,
                                             stats |-> result.stats]],
                   RenderedLines(s.currentView, result.diff, generateUnifiedDiff(result.diff)))
       IN  Rendered(computeDiff(original, modified))

handleCompare(s, original, modified) ==
  IF ComparesNothing(original, modified) THEN s
  ELSE LET \* showDiff()
           Shown(s2) == [s2 EXCEPT !.diffSectionHidden = FALSE]
           Built(s1, lines) == Shown(buildDiffGroups(buildDiffIndices(s1, lines), lines))
           \* the state is reset, then renderSplitView(diff); renderUnifiedView(diff)
           Rendered(result) ==
             Built([s EXCEPT !.diffResult = [present |-> TRUE, diff |-> result.diff,
                                             stats |-> result.stats],
                             !.mergeDecisions = EmptyMap,
                             !.activeGroupId = Null],
                   RenderedLines(s.currentView, result.diff, generateUnifiedDiff(result.diff)))
       IN  Rendered(computeDiff(original, modified))

switchView(s, view) ==
  LET s1 == [s EXCEPT !.currentView = view]
  IN  IF ~s.diffResult.present THEN s1
      ELSE LET \* renderUnifiedViewWithMergeDecisions() runs before the groups are rebuilt
               unifiedContent ==
                 IF view = "split" THEN <<>>
                 ELSE generateUnifiedDiffWithMergeDecisions(s.diffResult.diff, s.diffGroups,
                                                            s.mergeDecisions)
               lines == RenderedLines(view, s.diffResult.diff, unifiedContent)
           IN  buildDiffGroups(buildDiffIndices(s1, lines), lines)

showInput(s) ==
  [s EXCEPT !.diffSectionHidden = TRUE, !.currentDiffPosition = -1, !.currentGroupPosition = -1]

(***************************************************************************)
(* main.js: navigation.                                                    *)
(***************************************************************************)
\* position + direction with the wrap-around of navigateDiff and navigateGroup
StepPosition(position, direction, length) ==
  LET moved == IF position = -1
               THEN (IF direction = 1 THEN 0 ELSE length - 1)
               ELSE position + direction
  IN  IF moved < 0 THEN length - 1
      ELSE IF moved >= length THEN 0
      ELSE moved

Includes(seq, x) == \E k \in 1..Len(seq) : seq[k] = x

\* Array.prototype.indexOf, 0-based, -1 when absent
IndexOf(seq, x) ==
  IF Includes(seq, x) THEN (CHOOSE k \in 1..Len(seq) : seq[k] = x /\ \A j \in 1..(k - 1) : seq[j] # x) - 1
  ELSE -1

updateGroupPositionFromLine(s, lineIndex) ==
  LET hits == {i \in 0..(Len(s.diffGroups) - 1) : Includes(s.diffGroups[i + 1].lines, lineIndex)}
  IN  IF hits = {} THEN s
      ELSE [s EXCEPT !.currentGroupPosition = CHOOSE i \in hits : \A j \in hits : i <= j]

navigateDiff(s, direction) ==
  IF Len(s.diffIndices) = 0 THEN s
  ELSE LET position == StepPosition(s.currentDiffPosition, direction, Len(s.diffIndices))
           targetIndex == s.diffIndices[position + 1]
       IN  updateGroupPositionFromLine([s EXCEPT !.currentDiffPosition = position], targetIndex)

navigateGroup(s, direction) ==
  IF Len(s.diffGroups) = 0 THEN s
  ELSE LET position == StepPosition(s.currentGroupPosition, direction, Len(s.diffGroups))
           group == s.diffGroups[position + 1]
           linePosition == IndexOf(s.diffIndices, group.lines[1])
           s1 == [s EXCEPT !.currentGroupPosition = position]
       IN  IF linePosition # -1 THEN [s1 EXCEPT !.currentDiffPosition = linePosition] ELSE s1

(***************************************************************************)
(* main.js: the merge popup.                                               *)
(***************************************************************************)
\* group.diffIndices.forEach of openMergePopup: acc is [changeType, originalLines,
\* modifiedLines] (the two counts are all that is used of the collected lines)
RECURSIVE ChangeTypeLoop(_, _, _, _)
ChangeTypeLoop(split, indices, k, acc) ==
  IF k > Len(indices) THEN acc
  ELSE LET leftItem == split.left[indices[k] + 1]
           rightItem == split.right[indices[k] + 1]
           a1 == IF leftItem.type = "removed"
                 THEN [acc EXCEPT !.originalLines = @ + 1,
                                  !.changeType = IF @ = "null" THEN "removed" ELSE @]
                 ELSE IF leftItem.type = "modified"
                 THEN [acc EXCEPT !.originalLines = @ + 1, !.changeType = "modified"]
                 ELSE acc
           a2 == IF rightItem.type = "added"
                 THEN [a1 EXCEPT !.modifiedLines = @ + 1,
                                 !.changeType = IF @ = "null" THEN "added" ELSE @]
                 ELSE IF rightItem.type = "modified"
                 THEN [a1 EXCEPT !.modifiedLines = @ + 1, !.changeType = "modified"]
                 ELSE a1
       IN  ChangeTypeLoop(split, indices, k + 1, a2)

\* the value stored in popup.dataset.changeType ("null" when no line decided it)
PopupChangeType(diff, group) ==
  LET acc == ChangeTypeLoop(generateSplitDiff(diff), group.diffIndices, 1,
                            [changeType |-> "null", originalLines |-> 0, modifiedLines |-> 0])
  IN  IF acc.originalLines > 0 /\ acc.modifiedLines > 0 /\ acc.changeType # "modified"
      THEN "modified" ELSE acc.changeType

\* left[lineIndex] is undefined for some line of the group: leftItem.type throws a TypeError
OpenThrows(diff, group) ==
  \E k \in 1..Len(group.diffIndices) : group.diffIndices[k] >= Len(diff)

openMergePopup(s, groupIndex) ==
  IF groupIndex < 0 \/ groupIndex >= Len(s.diffGroups) THEN s
  ELSE LET group == s.diffGroups[groupIndex + 1]
           s1 == [s EXCEPT !.activeGroupId = group.id, !.currentGroupPosition = groupIndex]
       IN  IF OpenThrows(s.diffResult.diff, group) THEN s1
           ELSE [s1 EXCEPT !.changeType = PopupChangeType(s.diffResult.diff, group),
                           !.popupHidden = FALSE]

closeMergePopup(s) == [s EXCEPT !.popupHidden = TRUE, !.activeGroupId = Null]

\* the data-action values of the buttons openMergePopup renders for a change type
PopupActions(ct) ==
  IF ct = "added" THEN {"keep", "discard"}
  ELSE IF ct = "removed" THEN {"restore", "accept"}
  ELSE {"original", "modified", "both"}

\* a decision that is stored whatever the group held before
StoreDecision(decisions, groupId, action) == MapSet(decisions, groupId, action)

\* the toggle at the head of applyMergeDecision
ToggleDecision(decisions, groupId, action) ==
  IF MapGet(decisions, groupId) = action
  THEN MapDelete(decisions, groupId)
  ELSE MapSet(decisions, groupId, action)

\* diffGroups.findIndex(g => g.id === currentGroupId)
FindGroupIndex(groups, groupId) ==
  LET hits == {i \in 0..(Len(groups) - 1) : groups[i + 1].id = groupId}
  IN  IF hits = {} THEN -1 ELSE CHOOSE i \in hits : \A j \in hits : i <= j

\* the search that does not start again from the beginning
findNextUnresolvedGroupWithoutWrap(groups, decisions, currentGroupId) ==
  LET currentIndex == FindGroupIndex(groups, currentGroupId)
      after == {i \in (currentIndex + 1)..(Len(groups) - 1) : ~MapHas(decisions, groups[i + 1].id)}
  IN  IF after # {} THEN CHOOSE i \in after : \A j \in after : i <= j
      ELSE Null

\* Null when every other group has a decision
findNextUnresolvedGroup(groups, decisions, currentGroupId) ==
  LET currentIndex == FindGroupIndex(groups, currentGroupId)
      after == {i \in (currentIndex + 1)..(Len(groups) - 1) : ~MapHas(decisions, groups[i + 1].id)}
      before == {i \in 0..(currentIndex - 1) : ~MapHas(decisions, groups[i + 1].id)}
  IN  IF after # {} THEN CHOOSE i \in after : \A j \in after : i <= j
      ELSE IF before # {} THEN CHOOSE i \in before : \A j \in before : i <= j
      ELSE Null

applyMergeDecision(s, groupId, action) ==
  LET s1 == [s EXCEPT !.mergeDecisions = ToggleDecision(@, groupId, action)]
      nextUnresolved == findNextUnresolvedGroup(s1.diffGroups, s1.mergeDecisions, groupId)
  IN  IF nextUnresolved # Null
      THEN \* setTimeout(() => openMergePopup(nextUnresolved), 300)
           [s1 EXCEPT !.timers = Append(@, nextUnresolved)]
      ELSE closeMergePopup(s1)

(***************************************************************************)
(* main.js: generateMergedCSS.                                             *)
(***************************************************************************)
\* a merge that writes the two sides of a modified line in the opposite order for "both"
MergedLinesBothReversed(leftItem, rightItem, decision) ==
  IF leftItem.type = "unchanged" THEN <<leftItem.content>>
  ELSE IF leftItem.type = "removed"
       THEN IF decision \in {"restore", "original", "both"} THEN <<leftItem.content>> ELSE <<>>
  ELSE IF leftItem.type = "empty" /\ rightItem.type = "added"
       THEN IF decision \in {"discard", "original"} THEN <<>> ELSE <<rightItem.content>>
  ELSE IF leftItem.type = "modified"
       THEN IF decision = "original" THEN <<leftItem.content>>
            ELSE IF decision = "both" THEN <<rightItem.content, leftItem.content>>
            ELSE <<rightItem.content>>
  ELSE <<>>

\* a merge that keeps a removed line unless its removal was accepted
MergedLinesKeepingRemoved(leftItem, rightItem, decision) ==
  IF leftItem.type = "unchanged" THEN <<leftItem.content>>
  ELSE IF leftItem.type = "removed"
       THEN IF decision = "accept" THEN <<>> ELSE <<leftItem.content>>
  ELSE IF leftItem.type = "empty" /\ rightItem.type = "added"
       THEN IF decision \in {"discard", "original"} THEN <<>> ELSE <<rightItem.content>>
  ELSE IF leftItem.type = "modified"
       THEN IF decision = "original" THEN <<leftItem.content>>
            ELSE IF decision = "both" THEN <<leftItem.content, rightItem.content>>
            ELSE <<rightItem.content>>
  ELSE <<>>

\* the lines pushed for entry i of the split data under a decision
MergedLinesFor(leftItem, rightItem, decision) ==
  IF leftItem.type = "unchanged" THEN <<leftItem.content>>
  ELSE IF leftItem.type = "removed"
       THEN IF decision \in {"restore", "original", "both"} THEN <<leftItem.content>> ELSE <<>>
  ELSE IF leftItem.type = "empty" /\ rightItem.type = "added"
       THEN IF decision \in {"discard", "original"} THEN <<>> ELSE <<rightItem.content>>
  ELSE IF leftItem.type = "modified"
       THEN IF decision = "original" THEN <<leftItem.content>>
            ELSE IF decision = "both" THEN <<leftItem.content, rightItem.content>>
            ELSE <<rightItem.content>>
  ELSE <<>>

RECURSIVE MergedLinesFrom(_, _, _, _)
MergedLinesFrom(split, groups, decisions, i) ==
  IF i >= Len(split.left) THEN <<>>
  ELSE MergedLinesFor(split.left[i + 1], split.right[i + 1], DecisionForLine(groups, decisions, i))
       \o MergedLinesFrom(split, groups, decisions, i + 1)

generateMergedCSS(s) ==
  IF ~s.diffResult.present THEN <<>>
  ELSE Join(MergedLinesFrom(generateSplitDiff(s.diffResult.diff), s.diffGroups,
                            s.mergeDecisions, 0))

(***************************************************************************)
(* main.js: the keydown listener of setupEventListeners (the file dialogs  *)
(* and the preview modal are left out: Escape is modelled with the preview *)
(* modal closed).                                                          *)
(***************************************************************************)
\* applyMergeDecision calls of the keys 1, 2, 3
PopupKeyAction(ct, key) ==
  IF key = "1" THEN (IF ct = "added" THEN "keep" ELSE IF ct = "removed" THEN "restore" ELSE "original")
  ELSE IF key = "2" THEN (IF ct = "added" THEN "discard" ELSE IF ct = "removed" THEN "accept" ELSE "modified")
  ELSE IF key = "3" /\ ct = "modified" THEN "both"
  ELSE Undefined

\* "Navigation in diff view": the ifs run one after the other on the same event
KeyNavigation(s, key, shiftKey) ==
  LET OnEnter(n) ==
        IF key = "Enter" /\ n.currentGroupPosition >= 0
        THEN openMergePopup(n, n.currentGroupPosition)
        ELSE n
      OnJ(n) == OnEnter(IF key = "J" THEN navigateGroup(n, 1) ELSE n)
      OnK(n) == OnJ(IF key = "K" THEN navigateGroup(n, -1) ELSE n)
      OnShiftDown(n) == OnK(IF shiftKey /\ key = "ArrowDown" THEN navigateGroup(n, 1) ELSE n)
      OnShiftUp(n) == OnShiftDown(IF shiftKey /\ key = "ArrowUp" THEN navigateGroup(n, -1) ELSE n)
      OnDown(n) == OnShiftUp(IF key \in {"ArrowDown", "j"} THEN navigateDiff(n, 1) ELSE n)
      OnUp(n) == OnDown(IF key \in {"ArrowUp", "k"} THEN navigateDiff(n, -1) ELSE n)
  IN  OnUp(s)

keydown(s, key, shiftKey, ctrlKey, original, modified) ==
  LET \* the merge popup shortcuts; popupOpen was read before the navigation block
      PopupShortcuts(s3, popupOpen, action) ==
        IF popupOpen /\ s3.activeGroupId # Null /\ action # Undefined
        THEN applyMergeDecision(s3, s3.activeGroupId, action)
        ELSE s3
      Shortcuts(s3, popupOpen) ==
        PopupShortcuts(s3, popupOpen, PopupKeyAction(s3.changeType, key))
      Navigation(s2) ==
        Shortcuts(IF ~s2.diffSectionHidden /\ s2.popupHidden
                  THEN KeyNavigation(s2, key, shiftKey) ELSE s2,
                  ~s2.popupHidden)
      OnEscape(s1) ==
        Navigation(IF key = "Escape"
                   THEN IF ~s1.popupHidden THEN closeMergePopup(s1)
                        ELSE IF ~s1.diffSectionHidden THEN showInput(s1)
                        ELSE s1
                   ELSE s1)
  IN  OnEscape(IF ctrlKey /\ key = "Enter" THEN handleCompare(s, original, modified) ELSE s)

(***************************************************************************)
(* Inputs and bounds.                                                      *)
(***************************************************************************)
\* at most MaxTimers callbacks of setTimeout are pending at a time
MaxTimers == 1

\* the longest sequence given to the aligner
MaxLen == 3

\* the largest number of lines of a text drawn for a comparison
MaxLines == 2

\* the keys the keydown listener tests for: those of the navigation block and those
\* of the merge popup (Enter and Escape are read by both)
NavKeys == {"ArrowUp", "ArrowDown", "k", "j", "K", "J", "Enter", "Escape"}
MergeKeys == {"1", "2", "3", "K", "J", "Enter", "Escape"}

\* the units (lines) the aligner is run on
Units == {<<"a">>, <<"b">>, <<"c">>}

\* the lines of the texts drawn for a comparison: two similar lines and a third one
Lines == {<<"a", "b">>, <<"a", "c">>, <<"x">>}

RECURSIVE SeqsUpTo(_, _)
SeqsUpTo(S, n) ==
  IF n = 0 THEN {<<>>}
  ELSE LET shorter == SeqsUpTo(S, n - 1)
       IN  shorter \cup {Append(q, x) : q \in {r \in shorter : Len(r) = n - 1}, x \in S}

(***************************************************************************)
(* The application as a state machine: one action per event listener.      *)
(***************************************************************************)
NoOp(name) ==
  [op |-> name, key |-> "", shiftKey |-> FALSE, compared |-> FALSE, before |-> mergeDecisions]

Commit(s) ==
  /\ currentView' = s.currentView
  /\ diffResult' = s.diffResult
  /\ diffIndices' = s.diffIndices
  /\ currentDiffPosition' = s.currentDiffPosition
  /\ diffGroups' = s.diffGroups
  /\ currentGroupPosition' = s.currentGroupPosition
  /\ mergeDecisions' = s.mergeDecisions
  /\ activeGroupId' = s.activeGroupId
  /\ popupHidden' = s.popupHidden
  /\ changeType' = s.changeType
  /\ diffSectionHidden' = s.diffSectionHidden
  /\ timers' = s.timers
  /\ UNCHANGED <<seqA, seqB, rawDiff>>

Init ==
  /\ currentView = InitialState.currentView
  /\ diffResult = InitialState.diffResult
  /\ diffIndices = InitialState.diffIndices
  /\ currentDiffPosition = InitialState.currentDiffPosition
  /\ diffGroups = InitialState.diffGroups
  /\ currentGroupPosition = InitialState.currentGroupPosition
  /\ mergeDecisions = InitialState.mergeDecisions
  /\ activeGroupId = InitialState.activeGroupId
  /\ popupHidden = InitialState.popupHidden
  /\ changeType = InitialState.changeType
  /\ diffSectionHidden = InitialState.diffSectionHidden
  /\ timers = InitialState.timers
  /\ lastOp = [NoOp("init") EXCEPT !.before = EmptyMap]
  /\ seqA = <<>>
  /\ seqB = <<>>
  /\ rawDiff = <<>>

\* compareBtn click with one of the pairs texts in the two text areas
CompareWith(texts) ==
  /\ diffSectionHidden
  /\ \E pair \in texts :
       /\ Commit(handleCompare(State, pair[1], pair[2]))
       /\ lastOp' = [NoOp("compareBtn") EXCEPT !.compared = ~ComparesNothing(pair[1], pair[2])]

ClickCompare == CompareWith(Originals \X Modifieds)

\* backBtn click
ClickBack ==
  /\ ~diffSectionHidden
  /\ Commit(showInput(State))
  /\ lastOp' = NoOp("backBtn")

\* click on one of the .view-btn buttons
ClickView ==
  /\ ~diffSectionHidden
  /\ \E view \in {"split", "unified"} :
       /\ Commit(switchView(State, view))
       /\ lastOp' = [NoOp("viewBtn") EXCEPT !.key = view]

\* prevDiffBtn / nextDiffBtn click
ClickNavigateDiff ==
  /\ ~diffSectionHidden
  /\ \E direction \in {-1, 1} :
       /\ Commit(navigateDiff(State, direction))
       /\ lastOp' = NoOp(IF direction = 1 THEN "nextDiffBtn" ELSE "prevDiffBtn")

\* prevGroupBtn / nextGroupBtn click
ClickNavigateGroup ==
  /\ ~diffSectionHidden
  /\ \E direction \in {-1, 1} :
       /\ Commit(navigateGroup(State, direction))
       /\ lastOp' = NoOp(IF direction = 1 THEN "nextGroupBtn" ELSE "prevGroupBtn")

\* click on a line of the split view made clickable by setupClickableGroups.
\* buildDiffGroups calls setupClickableGroups in every view, and each call adds
\* a listener to the lines of the split DOM; on a click all of them run in
\* registration order and the last openMergePopup call decides the state, so
\* the click opens the popup on some group of the current diffGroups.
ClickGroupLine ==
  /\ ~diffSectionHidden
  /\ currentView = "split"
  /\ \E groupIndex \in 0..(Len(diffGroups) - 1) :
       /\ Commit(openMergePopup(State, groupIndex))
       /\ lastOp' = NoOp("line")

\* click on a .merge-popup-action button of the open popup
ClickPopupAction ==
  /\ ~popupHidden
  /\ activeGroupId # Null
  /\ \E action \in PopupActions(changeType) :
       LET s == applyMergeDecision(State, activeGroupId, action)
       IN  /\ Len(s.timers) <= MaxTimers
           /\ Commit(s)
           /\ lastOp' = [NoOp("popupAction") EXCEPT !.key = action]

\* click on #closeMergePopupBtn or on the backdrop
ClickClosePopup ==
  /\ ~popupHidden
  /\ Commit(closeMergePopup(State))
  /\ lastOp' = NoOp("popupClose")

\* a keydown event with a key of the set keys
KeyDown(keys) ==
  \E key \in keys, shiftKey \in BOOLEAN, ctrlKey \in BOOLEAN,
     original \in Originals, modified \in Modifieds :
       \* the flags and the text areas are enumerated only where the listener reads them
       /\ shiftKey => key \in {"ArrowUp", "ArrowDown"}
       /\ ctrlKey => key = "Enter"
       /\ (~ctrlKey) => (original = <<>> /\ modified = <<>>)
       /\ LET s == keydown(State, key, shiftKey, ctrlKey, original, modified)
          IN  /\ Len(s.timers) <= MaxTimers
              /\ Commit(s)
              /\ lastOp' = [NoOp("keydown") EXCEPT
                              !.key = key,
                              !.shiftKey = shiftKey,
                              !.compared = ctrlKey /\ ~ComparesNothing(original, modified)]

\* a callback scheduled by applyMergeDecision runs
Timeout ==
  /\ timers # <<>>
  /\ Commit(openMergePopup([State EXCEPT !.timers = Tail(@)], Head(timers)))
  /\ lastOp' = NoOp("timeout")

NavKeyDown == KeyDown(NavKeys)

MergeKeyDown == KeyDown(MergeKeys)

\* the events of a session that compares texts and walks through the differences
NextNav ==
  \/ ClickCompare
  \/ ClickBack
  \/ ClickView
  \/ ClickNavigateDiff
  \/ ClickNavigateGroup
  \/ ClickGroupLine
  \/ ClickClosePopup
  \/ NavKeyDown

SpecNav == Init /\ [][NextNav]_vars

\* the events of a session that compares texts and resolves the groups in the popup
NextMerge ==
  \/ ClickCompare
  \/ ClickBack
  \/ ClickView
  \/ ClickGroupLine
  \/ ClickPopupAction
  \/ ClickClosePopup
  \/ MergeKeyDown
  \/ Timeout

SpecMerge == Init /\ [][NextMerge]_vars

(***************************************************************************)
(* The aligner on its own: every pair of sequences of at most MaxLen units.*)
(***************************************************************************)
InitAlign ==
  /\ currentView = InitialState.currentView
  /\ diffResult = InitialState.diffResult
  /\ diffIndices = InitialState.diffIndices
  /\ currentDiffPosition = InitialState.currentDiffPosition
  /\ diffGroups = InitialState.diffGroups
  /\ currentGroupPosition = InitialState.currentGroupPosition
  /\ mergeDecisions = InitialState.mergeDecisions
  /\ activeGroupId = InitialState.activeGroupId
  /\ popupHidden = InitialState.popupHidden
  /\ changeType = InitialState.changeType
  /\ diffSectionHidden = InitialState.diffSectionHidden
  /\ timers = InitialState.timers
  /\ lastOp = [NoOp("init") EXCEPT !.before = EmptyMap]
  /\ seqA \in SeqsUpTo(Units, MaxLen)
  /\ seqB \in SeqsUpTo(Units, MaxLen)
  /\ rawDiff = <<>>

Align ==
  /\ lastOp.op = "init"
  /\ rawDiff' = backtrackDiff(computeLCS(seqA, seqB), seqA, seqB)
  /\ lastOp' = NoOp("backtrackDiff")
  /\ UNCHANGED <<appVars, seqA, seqB>>

NextAlign == Align

SpecAlign == InitAlign /\ [][NextAlign]_vars

(***************************************************************************)
(* Comparisons on their own: the two text areas hold any two texts of at   *)
(* most MaxLines lines (seqA is the original text, seqB the modified one). *)
(***************************************************************************)
Texts == {Join(q) : q \in SeqsUpTo(Lines, MaxLines)}

InitCompare ==
  /\ currentView = InitialState.currentView
  /\ diffResult = InitialState.diffResult
  /\ diffIndices = InitialState.diffIndices
  /\ currentDiffPosition = InitialState.currentDiffPosition
  /\ diffGroups = InitialState.diffGroups
  /\ currentGroupPosition = InitialState.currentGroupPosition
  /\ mergeDecisions = InitialState.mergeDecisions
  /\ activeGroupId = InitialState.activeGroupId
  /\ popupHidden = InitialState.popupHidden
  /\ changeType = InitialState.changeType
  /\ diffSectionHidden = InitialState.diffSectionHidden
  /\ timers = InitialState.timers
  /\ lastOp = [NoOp("init") EXCEPT !.before = EmptyMap]
  /\ seqA \in Texts
  /\ seqB \in Texts
  /\ rawDiff = <<>>

ClickCompareTyped == CompareWith({<<seqA, seqB>>})

NextCompare ==
  \/ ClickCompareTyped
  \/ ClickBack
  \/ ClickView

SpecCompare == InitCompare /\ [][NextCompare]_vars

(***************************************************************************)
(* Functions on their own.  In the specifications below the application is *)
(* at rest; seqA and seqB hold the two inputs of the function under study  *)
(* and rawDiff its result.                                                 *)
(***************************************************************************)
AppAtRest ==
  /\ currentView = InitialState.currentView
  /\ diffResult = InitialState.diffResult
  /\ diffIndices = InitialState.diffIndices
  /\ currentDiffPosition = InitialState.currentDiffPosition
  /\ diffGroups = InitialState.diffGroups
  /\ currentGroupPosition = InitialState.currentGroupPosition
  /\ mergeDecisions = InitialState.mergeDecisions
  /\ activeGroupId = InitialState.activeGroupId
  /\ popupHidden = InitialState.popupHidden
  /\ changeType = InitialState.changeType
  /\ diffSectionHidden = InitialState.diffSectionHidden
  /\ timers = InitialState.timers
  /\ lastOp = [NoOp("init") EXCEPT !.before = EmptyMap]
  /\ rawDiff = <<>>

(***************************************************************************)
(* The modification detector on its own: one line replaced by another,     *)
(* between at most MaxContext unchanged lines on each side.                *)
(***************************************************************************)
MaxContext == 1

ColorRed == <<"c", "o", "l", "o", "r", ":", " ", "r", "e", "d", ";">>
ColorBlue == <<"c", "o", "l", "o", "r", ":", " ", "b", "l", "u", "e", ";">>

\* lines that are similar by their ratio (the two colours), similar only by the boost
\* of a shared property name (a:b, a:wxyz), and not similar (b, x)
DetectLines ==
  {ColorRed, ColorBlue, <<"b">>, <<"x">>, <<"a", ":", "b">>, <<"a", ":", "w", "x", "y", "z">>}

ContextLine == <<"}">>

InitDetect ==
  /\ AppAtRest
  /\ \E left \in DetectLines, right \in DetectLines,
        before \in SeqsUpTo({ContextLine}, MaxContext),
        after \in SeqsUpTo({ContextLine}, MaxContext) :
          /\ seqA = before \o <<left>> \o after
          /\ seqB = before \o <<right>> \o after

Detect ==
  /\ lastOp.op = "init"
  /\ rawDiff' = detectModifications(backtrackDiff(computeLCS(seqA, seqB), seqA, seqB))
  /\ lastOp' = NoOp("detectModifications")
  /\ UNCHANGED <<appVars, seqA, seqB>>

NextDetect == Detect

SpecDetect == InitDetect /\ [][NextDetect]_vars

(***************************************************************************)
(* The inline differences on their own: every pair of strings of at most   *)
(* MaxChars characters, null and undefined included.                       *)
(***************************************************************************)
MaxChars == 3

InlineChars == {"a", "b", " "}

InlineInputs == SeqsUpTo(InlineChars, MaxChars) \cup {NullContent, UndefinedContent}

InitInline ==
  /\ AppAtRest
  /\ seqA \in InlineInputs
  /\ seqB \in InlineInputs

InlineDiff ==
  /\ lastOp.op = "init"
  /\ rawDiff' = findInlineDiff(seqA, seqB)
  /\ lastOp' = NoOp("findInlineDiff")
  /\ UNCHANGED <<appVars, seqA, seqB>>

InlineDiffWords ==
  /\ lastOp.op = "init"
  /\ rawDiff' = findInlineDiffWords(seqA, seqB)
  /\ lastOp' = NoOp("findInlineDiffWords")
  /\ UNCHANGED <<appVars, seqA, seqB>>

NextInline ==
  \/ InlineDiff
  \/ InlineDiffWords

SpecInline == InitInline /\ [][NextInline]_vars

(***************************************************************************)
(* The JSON diff on its own: every pair of values among the primitives,    *)
(* the arrays and objects of at most MaxWidth primitives, containers that  *)
(* hold one container, and the two objects of the documented example.      *)
(***************************************************************************)
MaxWidth == 2

One == JsNumber(<<"1">>)
Two == JsNumber(<<"2">>)

JsonPrimitives == {JsNull, One, Two, JsString(<<"1">>)}

\* plain keys, the empty key, a key with a dot, and the name of an inherited property
JsonKeys == {<<"a">>, <<"b">>, <<>>, <<"a", ".", "b">>, ValueOfKey}

ObjectsOver(keys, values, width) ==
  {JsObject(props) :
     props \in UNION {[chosen -> values] : chosen \in {S \in SUBSET keys : Cardinality(S) <= width}}}

FlatContainers ==
  {JsArray(items) : items \in SeqsUpTo(JsonPrimitives, MaxWidth)}
  \cup ObjectsOver(JsonKeys, {One, Two}, MaxWidth)

InnerContainers ==
  {JsArray(<<One>>), JsArray(<<Two>>), JsObject(<<>>)} \cup ObjectsOver({<<"b">>}, {One, Two}, 1)

NestedContainers ==
  {JsArray(<<inner>>) : inner \in InnerContainers}
  \cup {JsObject([key \in {<<"a">>} |-> inner]) : inner \in InnerContainers}
  \cup {JsObject([key \in {<<"a">>, <<"a", ".", "b">>} |-> IF key = <<"a">> THEN inner ELSE One]) :
          inner \in InnerContainers}

\* {a: 1, b: 2} and {a: 1, b: 3, c: 4}
ExampleOld == JsObject([key \in {<<"a">>, <<"b">>} |-> IF key = <<"a">> THEN One ELSE Two])
ExampleNew ==
  JsObject([key \in {<<"a">>, <<"b">>, <<"c">>} |->
              IF key = <<"a">> THEN One
              ELSE IF key = <<"b">> THEN JsNumber(<<"3">>) ELSE JsNumber(<<"4">>)])

JsonInputs ==
  JsonPrimitives \cup FlatContainers \cup NestedContainers \cup {ExampleOld, ExampleNew}

InitJson ==
  /\ AppAtRest
  /\ seqA \in JsonInputs
  /\ seqB \in JsonInputs

\* compareJSON(oldVal, newVal): path takes its default ''
CompareJson ==
  /\ lastOp.op = "init"
  /\ rawDiff' = compareJSON(seqA, seqB, <<>>)
  /\ lastOp' = NoOp("compareJSON")
  /\ UNCHANGED <<appVars, seqA, seqB>>

\* getDiffStats(diffTree) on the tree compareJSON returned
DiffStats ==
  /\ lastOp.op = "compareJSON"
  /\ rawDiff' = [diffTree |-> rawDiff, stats |-> getDiffStats(rawDiff)]
  /\ lastOp' = NoOp("getDiffStats")
  /\ UNCHANGED <<appVars, seqA, seqB>>

\* countChanges(node) on the same tree
CountChanges ==
  /\ lastOp.op = "getDiffStats"
  /\ rawDiff' = [diffTree |-> rawDiff.diffTree, stats |-> rawDiff.stats,
                 counts |-> countChanges(rawDiff.diffTree)]
  /\ lastOp' = NoOp("countChanges")
  /\ UNCHANGED <<appVars, seqA, seqB>>

NextJson ==
  \/ CompareJson
  \/ DiffStats
  \/ CountChanges

SpecJson == InitJson /\ [][NextJson]_vars

(***************************************************************************)
(* The similarity scorer on its own: every pair of strings of at most      *)
(* MaxChars characters, and every pair of lines that share the first       *)
(* characters of a declaration (at most MaxPrefix of them) and go on with  *)
(* one of a few tails, the first line with or without leading white space. *)
(***************************************************************************)
MaxPrefix == 11

\* the declaration the long lines start with
PrefixBase == <<"m", "a", "r", "g", "i", "n", "-", "l", "e", "f", "t", "s">>

\* what follows the shared characters of a long line
Tails ==
  {<<>>, <<"x">>, <<"y">>, <<"x", "y">>, <<"x", "x", "x", "x", "x", "x", "x", "x">>}

LinesWithPrefix(prefixLen) == {SubSeq(PrefixBase, 1, prefixLen) \o tail : tail \in Tails}

SimilarInputs ==
  {<<a, b>> : a, b \in SeqsUpTo(InlineChars, MaxChars)}
  \cup UNION {{<<pad \o a, b>> : a, b \in LinesWithPrefix(prefixLen), pad \in {<<>>, <<" ">>}} :
                prefixLen \in 0..MaxPrefix}

InitSimilar ==
  /\ AppAtRest
  /\ \E pair \in SimilarInputs : seqA = pair[1] /\ seqB = pair[2]

SimilarityRatio ==
  /\ lastOp.op = "init"
  /\ rawDiff' = similarityRatio(seqA, seqB)
  /\ lastOp' = NoOp("similarityRatio")
  /\ UNCHANGED <<appVars, seqA, seqB>>

\* areSimilar(a, b): threshold takes its default 0.4
AreSimilar ==
  /\ lastOp.op = "init"
  /\ rawDiff' = areSimilar(seqA, seqB, DefaultThreshold)
  /\ lastOp' = NoOp("areSimilar")
  /\ UNCHANGED <<appVars, seqA, seqB>>

NextSimilar ==
  \/ SimilarityRatio
  \/ AreSimilar

SpecSimilar == InitSimilar /\ [][NextSimilar]_vars

(***************************************************************************)
(* Blocks of removed and added lines on their own: seqA holds the contents *)
(* of at most MaxBlock removed lines, seqB those of at most MaxBlock added  *)
(* lines.  findBestMatches is run on the two blocks, detectModifications   *)
(* on a raw diff that lays the two blocks out in one of four ways.         *)
(***************************************************************************)
MaxBlock == 3

\* ab and ac are similar (1/2), abc is closer to both (2/3), x is similar to none
BlockLines == {<<"a", "b">>, <<"a", "c">>, <<"a", "b", "c">>, <<"x">>}

\* removed lines numbered from the left line first, added lines from the right line first
RemovedBlock(contents, first) == [k \in 1..Len(contents) |-> RemovedEntry(first + k - 1, contents[k])]
AddedBlock(contents, first) == [k \in 1..Len(contents) |-> AddedEntry(first + k - 1, contents[k])]

\* the raw diffs: the removed block followed by the added block (RA), the same
\* between two unchanged lines (URAU), the added block first (AR), and the two
\* blocks with an unchanged line between them (RUA)
Layouts == {"RA", "URAU", "AR", "RUA"}

RawDiffOf(layout, removed, added) ==
  IF layout = "RA" THEN RemovedBlock(removed, 1) \o AddedBlock(added, 1)
  ELSE IF layout = "URAU"
       THEN <<UnchangedEntry(1, 1, ContextLine, ContextLine)>>
            \o RemovedBlock(removed, 2) \o AddedBlock(added, 2)
            \o <<UnchangedEntry(Len(removed) + 2, Len(added) + 2, ContextLine, ContextLine)>>
  ELSE IF layout = "AR" THEN AddedBlock(added, 1) \o RemovedBlock(removed, 1)
  ELSE RemovedBlock(removed, 1)
       \o <<UnchangedEntry(Len(removed) + 1, 1, ContextLine, ContextLine)>>
       \o AddedBlock(added, 2)

InitBlocks ==
  /\ AppAtRest
  /\ seqA \in SeqsUpTo(BlockLines, MaxBlock)
  /\ seqB \in SeqsUpTo(BlockLines, MaxBlock)

FindBestMatches ==
  /\ lastOp.op = "init"
  /\ rawDiff' = findBestMatches(RemovedBlock(seqA, 1), AddedBlock(seqB, 1))
  /\ lastOp' = NoOp("findBestMatches")
  /\ UNCHANGED <<appVars, seqA, seqB>>

DetectModifications ==
  /\ lastOp.op = "init"
  /\ \E layout \in Layouts :
       rawDiff' = [layout |-> layout,
                   result |-> detectModifications(RawDiffOf(layout, seqA, seqB))]
  /\ lastOp' = NoOp("detectModifications")
  /\ UNCHANGED <<appVars, seqA, seqB>>

NextBlocks ==
  \/ FindBestMatches
  \/ DetectModifications

SpecBlocks == InitBlocks /\ [][NextBlocks]_vars

(***************************************************************************)
(* Auto-advance on its own: two texts of at most MaxAdvanceLines lines     *)
(* have been compared in the split view and the popup has been opened on   *)
(* one of the groups; from then on the user decides the group the popup    *)
(* shows, once, and the scheduled callbacks run.                           *)
(***************************************************************************)
MaxAdvanceLines == 2

\* ab and ac are similar; x and z are similar to no other line
AdvanceLines == {<<"a", "b">>, <<"a", "c">>, <<"x">>, <<"z">>}

AdvanceTexts == {Join(q) : q \in SeqsUpTo(AdvanceLines, MaxAdvanceLines)}

InitAdvance ==
  \E original \in AdvanceTexts, modified \in AdvanceTexts, groupIndex \in 0..(2 * MaxAdvanceLines) :
    LET Starts(s) ==
          /\ groupIndex < Len(s.diffGroups)
          /\ currentView = s.currentView
          /\ diffResult = s.diffResult
          /\ diffIndices = s.diffIndices
          /\ currentDiffPosition = s.currentDiffPosition
          /\ diffGroups = s.diffGroups
          /\ currentGroupPosition = s.currentGroupPosition
          /\ mergeDecisions = s.mergeDecisions
          /\ activeGroupId = s.activeGroupId
          /\ popupHidden = s.popupHidden
          /\ changeType = s.changeType
          /\ diffSectionHidden = s.diffSectionHidden
          /\ timers = s.timers
          /\ lastOp = [NoOp("line") EXCEPT !.before = EmptyMap]
          /\ seqA = original
          /\ seqB = modified
          /\ rawDiff = <<>>
        Opened(s) == Starts(openMergePopup(s, groupIndex))
    IN  Opened(handleCompare(InitialState, original, modified))

\* the user chooses a decision for the group the popup shows, which has none
DecideShownGroup ==
  /\ ~MapHas(mergeDecisions, activeGroupId)
  /\ ClickPopupAction

NextAdvance ==
  \/ DecideShownGroup
  \/ Timeout

\* the user does decide a group the popup shows, and a scheduled callback does run
SpecAdvance ==
  InitAdvance /\ [][NextAdvance]_vars /\ WF_vars(DecideShownGroup) /\ WF_vars(Timeout)

(***************************************************************************)
(* Navigation in the split view on its own: after a comparison only the    *)
(* navigation buttons and the diff lines are clicked.                      *)
(***************************************************************************)
NextSplitNav ==
  \/ ClickCompare
  \/ ClickNavigateDiff
  \/ ClickNavigateGroup
  \/ ClickGroupLine

SpecSplitNav == Init /\ [][NextSplitNav]_vars

(***************************************************************************)
(* Properties of the aligner.                                              *)
(***************************************************************************)
\* the entries of diff whose type is in types, in output order
RECURSIVE EntriesOfTypes(_, _)
EntriesOfTypes(diff, types) ==
  IF diff = <<>> THEN <<>>
  ELSE (IF Head(diff).type \in types THEN <<Head(diff)>> ELSE <<>>)
       \o EntriesOfTypes(Tail(diff), types)

RightContents(entries) == [k \in 1..Len(entries) |-> entries[k].rightContent]
LeftContents(entries) == [k \in 1..Len(entries) |-> entries[k].leftContent]

\* C1: in the raw script backtrackDiff(computeLCS(A, B), A, B) the rightContent of the
\* unchanged and added entries, in output order, is exactly B, and the leftContent of
\* the unchanged and removed entries, in output order, is exactly A.
C1_AlignmentRoundTrip ==
  lastOp.op = "backtrackDiff" =>
    /\ RightContents(EntriesOfTypes(rawDiff, {"unchanged", "added"})) = seqB
    /\ LeftContents(EntriesOfTypes(rawDiff, {"unchanged", "removed"})) = seqA

\* a script with the three kinds of entry has been computed for two different sequences
C1_Witness ==
  /\ lastOp.op = "backtrackDiff"
  /\ Len(seqA) = MaxLen
  /\ seqA # seqB
  /\ \A t \in {"unchanged", "added", "removed"} : EntriesOfTypes(rawDiff, {t}) # <<>>

\* the subsequences of s
RECURSIVE Subsequences(_)
Subsequences(s) ==
  IF s = <<>> THEN {<<>>}
  ELSE LET rest == Subsequences(Tail(s))
       IN  rest \cup {<<Head(s)>> \o q : q \in rest}

\* the length of a longest common subsequence of a and b, by enumeration
LongestCommon(a, b) ==
  LET lengths == {Len(q) : q \in Subsequences(a) \cap Subsequences(b)}
  IN  CHOOSE n \in lengths : \A k \in lengths : k <= n

\* C18: computeLCS(A, B) is an (m + 1) by (n + 1) matrix dp in which dp[i][j] is the
\* length of a longest common subsequence of the first i elements of A and the first
\* j elements of B (dp[i][j] of the code is dp[i + 1][j + 1] here).
C18_LcsMatrix ==
  lastOp.op = "backtrackDiff" =>
    LET dp == computeLCS(seqA, seqB)
    IN  /\ Len(dp) = Len(seqA) + 1
        /\ \A i \in 0..Len(seqA) :
             /\ Len(dp[i + 1]) = Len(seqB) + 1
             /\ \A j \in 0..Len(seqB) :
                  dp[i + 1][j + 1] = LongestCommon(SubSeq(seqA, 1, i), SubSeq(seqB, 1, j))

\* the matrix of two different full-length sequences with a common subsequence that is
\* neither empty nor one of them
C18_Witness ==
  /\ lastOp.op = "backtrackDiff"
  /\ Len(seqA) = MaxLen /\ Len(seqB) = MaxLen
  /\ computeLCS(seqA, seqB)[MaxLen + 1][MaxLen + 1] \in 1..(MaxLen - 1)

\* C19: in the raw script no added entry is immediately followed by a removed entry:
\* every run of changed entries lists its removed entries before its added entries.
C19_RemovedBeforeAdded ==
  lastOp.op = "backtrackDiff" =>
    \A k \in 1..(Len(rawDiff) - 1) :
      ~(rawDiff[k].type = "added" /\ rawDiff[k + 1].type = "removed")

\* a run with a removed entry and an added entry between two unchanged entries
C19_Witness ==
  /\ lastOp.op = "backtrackDiff"
  /\ \E k \in 2..(Len(rawDiff) - 2) :
       /\ rawDiff[k - 1].type = "unchanged"
       /\ rawDiff[k].type = "removed"
       /\ rawDiff[k + 1].type = "added"
       /\ rawDiff[k + 2].type = "unchanged"

(***************************************************************************)
(* Properties of the modification detector.                                *)
(***************************************************************************)
TypesOf(diff) == [k \in 1..Len(diff) |-> diff[k].type]

\* raw[k] is a removed entry immediately followed by an added entry, and the two have
\* no other changed neighbour
IsolatedPairAt(raw, k) ==
  /\ raw[k].type = "removed"
  /\ raw[k + 1].type = "added"
  /\ (k = 1 \/ raw[k - 1].type = "unchanged")
  /\ (k + 1 = Len(raw) \/ raw[k + 2].type = "unchanged")

\* out holds one modified entry carrying both sides of the pair
PairMerged(out, removed, added) ==
  \E n \in 1..Len(out) :
    /\ out[n].type = "modified"
    /\ out[n].leftLine = removed.leftLine /\ out[n].leftContent = removed.leftContent
    /\ out[n].rightLine = added.rightLine /\ out[n].rightContent = added.rightContent

\* out holds the removed entry followed by the added entry
PairKept(out, removed, added) ==
  \E n \in 1..(Len(out) - 1) : out[n] = removed /\ out[n + 1] = added

\* C20: a removed line immediately followed by an added line, with no other changed
\* neighbour, becomes one modified entry carrying both contents iff areSimilar holds at
\* the default threshold 0.4; 'color: red;' / 'color: blue;' becomes one modified
\* entry and 'b' / 'x' stays a removed entry followed by an added entry.
C20_SimilarPairBecomesModified ==
  lastOp.op = "detectModifications" =>
    LET raw == backtrackDiff(computeLCS(seqA, seqB), seqA, seqB)
    IN  /\ \A k \in 1..(Len(raw) - 1) :
             IsolatedPairAt(raw, k) =>
               IF areSimilar(raw[k].leftContent, raw[k + 1].rightContent, DefaultThreshold).similar
               THEN PairMerged(rawDiff, raw[k], raw[k + 1]) /\ ~PairKept(rawDiff, raw[k], raw[k + 1])
               ELSE PairKept(rawDiff, raw[k], raw[k + 1]) /\ ~PairMerged(rawDiff, raw[k], raw[k + 1])
        /\ (seqA = <<ColorRed>> /\ seqB = <<ColorBlue>>) => TypesOf(rawDiff) = <<"modified">>
        /\ (seqA = <<<<"b">>>> /\ seqB = <<<<"x">>>>) => TypesOf(rawDiff) = <<"removed", "added">>

\* a pair that is similar only through the boost of the shared property name has been
\* merged between two unchanged lines
C20_Witness ==
  /\ lastOp.op = "detectModifications"
  /\ seqA = <<ContextLine, <<"a", ":", "b">>, ContextLine>>
  /\ seqB = <<ContextLine, <<"a", ":", "w", "x", "y", "z">>, ContextLine>>
  /\ RatGT(DefaultThreshold, similarityRatio(seqA[2], seqB[2]))
  /\ TypesOf(rawDiff) = <<"unchanged", "modified", "unchanged">>

(***************************************************************************)
(* Properties of the inline differences.                                   *)
(***************************************************************************)
\* the texts of the segments joined in order
RECURSIVE JoinedText(_)
JoinedText(segments) ==
  IF segments = <<>> THEN <<>> ELSE Head(segments).text \o JoinedText(Tail(segments))

HasSegment(segments, changed) == \E k \in 1..Len(segments) : segments[k].changed = changed

\* C11: for every pair of strings (null and undefined taken as the empty string) the
\* segment texts of oldResult join to old and those of newResult join to new, for
\* findInlineDiff and for findInlineDiffWords.
C11_InlineRoundTrip ==
  lastOp.op \in {"findInlineDiff", "findInlineDiffWords"} =>
    /\ JoinedText(rawDiff.oldResult) = OrEmpty(seqA)
    /\ JoinedText(rawDiff.newResult) = OrEmpty(seqB)

\* the character-level result of two strings that share a prefix and a suffix around
\* a changed middle on both sides
C11_Witness ==
  /\ lastOp.op = "findInlineDiff"
  /\ Len(rawDiff.oldResult) = 3
  /\ Len(rawDiff.newResult) = 3
  /\ Len(seqA) = MaxChars

(***************************************************************************)
(* Properties of the JSON diff tree.                                       *)
(***************************************************************************)
\* the nodes of a tree, root first, in document order
RECURSIVE NodesOf(_)
NodesOf(node) ==
  LET RECURSIVE Below(_, _)
      Below(nodes, k) ==
        IF k > Len(nodes) THEN <<>> ELSE NodesOf(nodes[k]) \o Below(nodes, k + 1)
  IN  <<node>> \o Below(node.children.nodes, 1)

\* node.hasChanges === false
HasChangesIsFalse(node) == "hasChanges" \in DOMAIN node /\ node.hasChanges = FALSE

\* C12: for every JSON-compatible value v, every node of compareJSON(v, v), leaves
\* included, has type unchanged and hasChanges === false.
C12_EqualInputsUnchanged ==
  (lastOp.op = "compareJSON" /\ seqA = seqB) =>
    LET nodes == NodesOf(rawDiff)
    IN  \A k \in 1..Len(nodes) : nodes[k].type = "unchanged" /\ HasChangesIsFalse(nodes[k])

\* C13: no two distinct nodes of the tree compareJSON returns, root included, have
\* the same path.
C13_PathsUnique ==
  lastOp.op = "compareJSON" =>
    LET nodes == NodesOf(rawDiff)
    IN  \A i, j \in 1..Len(nodes) : i # j => nodes[i].path # nodes[j].path

IsPresent(value) == value # JsUndefined

\* the nodes below the root of a tree
DescendantsOf(node) == Tail(NodesOf(node))

\* C14: for two present values of the same container type the node has type modified
\* iff some descendant has a type other than unchanged, and unchanged otherwise;
\* hasChanges is true exactly when the type is modified.
C14_ContainerModifiedIffDescendantChanged ==
  (lastOp.op = "compareJSON" /\ IsContainerType(getValueType(seqA))
   /\ getValueType(seqA) = getValueType(seqB)) =>
    LET below == DescendantsOf(rawDiff)
        changed == \E k \in 1..Len(below) : below[k].type # "unchanged"
    IN  /\ rawDiff.type = (IF changed THEN "modified" ELSE "unchanged")
        /\ rawDiff.hasChanges = (rawDiff.type = "modified")

\* two containers that differ only below a child container: the children without
\* children are all unchanged
C14_Witness ==
  /\ lastOp.op = "compareJSON"
  /\ getValueType(seqA) = "object" /\ getValueType(seqB) = "object"
  /\ rawDiff.type = "modified"
  /\ \E k \in 1..Len(rawDiff.children.nodes) :
       /\ ~rawDiff.children.nodes[k].children.isNull
       /\ rawDiff.children.nodes[k].type = "modified"
  /\ \A k \in 1..Len(rawDiff.children.nodes) :
       rawDiff.children.nodes[k].children.isNull => rawDiff.children.nodes[k].type = "unchanged"

\* the value the JSON object holds at key: its own property, else nothing
OwnValue(obj, key) == IF key \in ObjectKeys(obj) THEN obj.props[key] ELSE JsUndefined

ChildTypes(node) == [k \in 1..Len(node.children.nodes) |-> node.children.nodes[k].type]

\* C15: for two objects the children are exactly one child per key of the union of
\* the two key sets, in lexicographically sorted key order, each being compareJSON of
\* the two values at that key; {a:1,b:2} against {a:1,b:3,c:4} gives a modified root
\* with children a unchanged, b modified (1 to 3), c added (4).
C15_ObjectChildrenPerKey ==
  (lastOp.op = "compareJSON" /\ getValueType(seqA) = "object" /\ getValueType(seqB) = "object") =>
    LET children == rawDiff.children.nodes
        union == ObjectKeys(seqA) \cup ObjectKeys(seqB)
    IN  /\ Len(children) = Cardinality(union)
        /\ {children[k].key : k \in 1..Len(children)} = union
        /\ \A k \in 1..(Len(children) - 1) :
             KeyLE(children[k].key, children[k + 1].key) /\ children[k].key # children[k + 1].key
        /\ \A k \in 1..Len(children) :
             children[k] = WithKey(compareJSON(OwnValue(seqA, children[k].key),
                                               OwnValue(seqB, children[k].key),
                                               children[k].key),
                                   children[k].key)
        /\ (seqA = ExampleOld /\ seqB = ExampleNew) =>
             /\ rawDiff.type = "modified"
             /\ ChildTypes(rawDiff) = <<"unchanged", "modified", "added">>
             /\ children[2].oldValue = One /\ children[2].newValue = JsNumber(<<"3">>)
             /\ children[3].newValue = JsNumber(<<"4">>)

\* C16: when both values are present and their types differ, the node is of type
\* modified and its children is null, at any depth of the tree.
C16_TypeMismatchIsModifiedLeaf ==
  lastOp.op = "compareJSON" =>
    LET nodes == NodesOf(rawDiff)
    IN  \A k \in 1..Len(nodes) :
          (IsPresent(nodes[k].oldValue) /\ IsPresent(nodes[k].newValue)
           /\ getValueType(nodes[k].oldValue) # getValueType(nodes[k].newValue)) =>
            nodes[k].type = "modified" /\ nodes[k].children.isNull

\* an object against an array, below the root
C16_Witness ==
  /\ lastOp.op = "compareJSON"
  /\ \E k \in 1..Len(DescendantsOf(rawDiff)) :
       /\ getValueType(DescendantsOf(rawDiff)[k].oldValue) = "object"
       /\ getValueType(DescendantsOf(rawDiff)[k].newValue) = "array"
       /\ DescendantsOf(rawDiff)[k].type = "modified"

\* the number of nodes of the given type that have no children
LeavesOfType(nodes, type) ==
  Cardinality({k \in 1..Len(nodes) :
                 /\ nodes[k].children.isNull \/ Len(nodes[k].children.nodes) = 0
                 /\ nodes[k].type = type})

\* C17: getDiffStats counts each node without children once, in the bucket of its
\* type, and no node with children contributes to a count.
C17_StatsCountLeaves ==
  lastOp.op = "getDiffStats" =>
    \A type \in {"added", "removed", "modified", "unchanged"} :
      rawDiff.stats[type] = LeavesOfType(NodesOf(rawDiff.diffTree), type)

\* the statistics of a tree with a modified container above leaves of two types
C17_Witness ==
  /\ lastOp.op = "getDiffStats"
  /\ rawDiff.diffTree.type = "modified"
  /\ Len(rawDiff.diffTree.children.nodes) = 2
  /\ rawDiff.stats.added = 1
  /\ rawDiff.stats.unchanged = 1
  /\ rawDiff.stats.modified = 0

\* C30: for every tree built by compareJSON, empty objects and empty arrays included,
\* countChanges and getDiffStats report the same added, removed and modified counts.
C30_CountsAgreeWithStats ==
  lastOp.op = "countChanges" =>
    \A type \in {"added", "removed", "modified"} : rawDiff.counts[type] = rawDiff.stats[type]

(***************************************************************************)
(* Properties of the merged output.                                        *)
(***************************************************************************)
\* the lines the default merge keeps of one diff entry: the modified side
DefaultLinesOf(entry) ==
  IF entry.type = "unchanged" THEN <<entry.leftContent>>
  ELSE IF entry.type = "removed" THEN <<>>
  ELSE <<entry.rightContent>>

RECURSIVE DefaultMergeLines(_)
DefaultMergeLines(diff) ==
  IF diff = <<>> THEN <<>>
  ELSE DefaultLinesOf(Head(diff)) \o DefaultMergeLines(Tail(diff))

HasEntry(diff, t) == \E k \in 1..Len(diff) : diff[k].type = t

\* C2: with an empty decision map generateMergedCSS emits, entry by entry, the right
\* content of a modified entry (not its left content), the right content of an added
\* entry, nothing for a removed entry and the content of an unchanged entry.
C2_DefaultMerge ==
  (diffResult.present /\ mergeDecisions = EmptyMap) =>
    generateMergedCSS(State) = Join(DefaultMergeLines(diffResult.diff))

\* a comparison produced a diff with a modified, a removed and an added entry
C2_Witness ==
  /\ lastOp.compared
  /\ mergeDecisions = EmptyMap
  /\ \A t \in {"modified", "removed", "added"} : HasEntry(diffResult.diff, t)

\* the decision attached to the group whose lines contain entry i (0-based), Undefined
\* when no group contains it or the group has no decision
DecisionOfEntry(i) ==
  LET containing == {g \in 1..Len(diffGroups) : Includes(diffGroups[g].lines, i)}
  IN  IF containing = {} THEN Undefined
      ELSE MapGet(mergeDecisions, diffGroups[CHOOSE g \in containing : \A h \in containing : g <= h].id)

\* the lines an entry contributes under decision d
DecidedLinesOf(entry, d) ==
  IF entry.type = "unchanged" THEN <<entry.leftContent>>
  ELSE IF entry.type = "removed"
       THEN (IF d \in {"restore", "original", "both"} THEN <<entry.leftContent>> ELSE <<>>)
  ELSE IF entry.type = "added"
       THEN (IF d \in {"discard", "original"} THEN <<>> ELSE <<entry.rightContent>>)
  ELSE IF d = "original" THEN <<entry.leftContent>>
  ELSE IF d = "both" THEN <<entry.leftContent, entry.rightContent>>
  ELSE <<entry.rightContent>>

RECURSIVE DecidedMergeLines(_, _)
DecidedMergeLines(diff, i) ==
  IF i >= Len(diff) THEN <<>>
  ELSE DecidedLinesOf(diff[i + 1], DecisionOfEntry(i)) \o DecidedMergeLines(diff, i + 1)

\* C3: under the decision d of the group containing an entry, generateMergedCSS emits
\* the left content of a removed entry iff d is restore, original or both, nothing for
\* an added entry iff d is discard or original (its right content otherwise), for a
\* modified entry left only if d is original, left then right if d is both and right
\* only otherwise, every unchanged entry, all in diff order.
C3_DecidedMerge ==
  diffResult.present => generateMergedCSS(State) = Join(DecidedMergeLines(diffResult.diff, 0))

\* a modified entry is decided "both" and an added entry "discard"
C3_Witness ==
  /\ diffResult.present
  /\ \E i \in 0..(Len(diffResult.diff) - 1) :
       diffResult.diff[i + 1].type = "modified" /\ DecisionOfEntry(i) = "both"
  /\ \E i \in 0..(Len(diffResult.diff) - 1) :
       diffResult.diff[i + 1].type = "added" /\ DecisionOfEntry(i) = "discard"

(***************************************************************************)
(* Properties of the groups and of the decision map.                       *)
(***************************************************************************)
LineSet(group) == {group.lines[k] : k \in 1..Len(group.lines)}

\* the 0-based indices of the entries of diffResult.diff that are not unchanged
ChangedIndices ==
  {i \in 0..(Len(diffResult.diff) - 1) : diffResult.diff[i + 1].type # "unchanged"}

KindAt(i) ==
  IF i < 0 \/ i >= Len(diffResult.diff) THEN "none" ELSE diffResult.diff[i + 1].type

\* the lines of group are a run of consecutive entries of one changed kind that no
\* neighbouring entry of the same kind extends
IsMaximalRun(group) ==
  LET lines == LineSet(group)
      first == CHOOSE i \in lines : \A j \in lines : i <= j
      last == CHOOSE i \in lines : \A j \in lines : j <= i
  IN  /\ lines = first..last
      /\ lines \subseteq ChangedIndices
      /\ \A i \in lines : KindAt(i) = KindAt(first)
      /\ KindAt(first - 1) # KindAt(first)
      /\ KindAt(last + 1) # KindAt(first)

\* C4: after every handleCompare and every switchView the index lists of diffGroups
\* are pairwise disjoint, each group is a maximal run of consecutive diff entries of
\* one kind, and the union of the groups is exactly the set of indices of
\* diffResult.diff whose type is not unchanged.
C4_GroupsPartitionChangedEntries ==
  (diffResult.present /\ (lastOp.compared \/ lastOp.op = "viewBtn")) =>
    /\ \A g, h \in 1..Len(diffGroups) :
         g # h => LineSet(diffGroups[g]) \cap LineSet(diffGroups[h]) = {}
    /\ \A g \in 1..Len(diffGroups) : IsMaximalRun(diffGroups[g])
    /\ UNION {LineSet(diffGroups[g]) : g \in 1..Len(diffGroups)} = ChangedIndices

\* the decision values the popup offers for a group of a kind
Vocabulary(kind) ==
  IF kind = "added" THEN {"keep", "discard"}
  ELSE IF kind = "removed" THEN {"restore", "accept"}
  ELSE {"original", "modified", "both"}

\* C5: every key of mergeDecisions is the id of a group of the current diffGroups and
\* its value belongs to the vocabulary of that group's kind: keep/discard for an added
\* group, restore/accept for a removed group, original/modified/both for a modified one.
C5_DecisionsMatchGroups ==
  \A id \in DOMAIN mergeDecisions :
    \E g \in 1..Len(diffGroups) :
      /\ diffGroups[g].id = id
      /\ mergeDecisions[id] \in Vocabulary(diffGroups[g].type)

\* C6: generateMergedCSS is a function of (diffResult.diff, mergeDecisions) only: a
\* step that keeps the diff and the decision map (a view switch, a navigation) keeps
\* the merged text.
C6_MergedDependsOnDiffAndDecisions ==
  [][(diffResult' = diffResult /\ mergeDecisions' = mergeDecisions)
       => generateMergedCSS(State)' = generateMergedCSS(State)]_vars

AllDecisions == {"keep", "discard", "restore", "accept", "original", "modified", "both"}

GroupIds == {diffGroups[g].id : g \in 1..Len(diffGroups)}

\* the decision map after applyMergeDecision(groupId, action) has run n times in a row
RECURSIVE AppliedTimes(_, _, _, _)
AppliedTimes(s, groupId, action, n) ==
  IF n = 0 THEN s.mergeDecisions
  ELSE AppliedTimes(applyMergeDecision(s, groupId, action), groupId, action, n - 1)

\* C7: applying the same decision value twice in a row to a group that had no decision
\* leaves mergeDecisions exactly as it was before the first application, and applying
\* a value different from the stored one replaces the stored one.
C7_ToggleTwiceRestores ==
  \A groupId \in GroupIds, action \in AllDecisions :
    /\ ~MapHas(mergeDecisions, groupId) =>
         /\ MapGet(AppliedTimes(State, groupId, action, 1), groupId) = action
         /\ AppliedTimes(State, groupId, action, 2) = mergeDecisions
    /\ (MapHas(mergeDecisions, groupId) /\ mergeDecisions[groupId] # action) =>
         /\ DOMAIN AppliedTimes(State, groupId, action, 1) = DOMAIN mergeDecisions
         /\ \A id \in DOMAIN mergeDecisions :
              AppliedTimes(State, groupId, action, 1)[id] =
                IF id = groupId THEN action ELSE mergeDecisions[id]

\* a click in the popup has just removed the decision it had stored before
C7_Witness ==
  /\ lastOp.op = "popupAction"
  /\ \E groupId \in GroupIds :
       /\ MapGet(lastOp.before, groupId) = lastOp.key
       /\ ~MapHas(mergeDecisions, groupId)

\* C8: every handleCompare that computes a diff leaves mergeDecisions empty and
\* activeGroupId null, so that generateMergedCSS is the default merge of the new diff
\* whatever decisions were stored for the previous diff.
C8_CompareResetsMergeState ==
  lastOp.compared =>
    /\ mergeDecisions = EmptyMap
    /\ activeGroupId = Null
    /\ generateMergedCSS(State) = Join(DefaultMergeLines(diffResult.diff))

\* a diff was computed while decisions were stored for the previous one
C8_Witness ==
  /\ lastOp.compared
  /\ lastOp.before # EmptyMap
  /\ ChangedIndices # {}

(***************************************************************************)
(* Properties of the keyboard shortcuts.                                   *)
(***************************************************************************)
\* the group the popup is open on, in the split view, with no decision stored for it
PopupOnUndecidedGroup(g) ==
  /\ currentView = "split"
  /\ ~popupHidden
  /\ diffGroups[g].id = activeGroupId
  /\ changeType = diffGroups[g].type
  /\ ~MapHas(mergeDecisions, activeGroupId)

\* the lines of the original side and of the modified side of an entry
OriginalSideOf(entry) == IF entry.type = "added" THEN <<>> ELSE <<entry.leftContent>>
ModifiedSideOf(entry) == IF entry.type = "removed" THEN <<>> ELSE <<entry.rightContent>>

\* the lines generateMergedCSS emits for entry i (0-based) in state s
EmittedFor(s, i) ==
  LET split == generateSplitDiff(s.diffResult.diff)
  IN  MergedLinesFor(split.left[i + 1], split.right[i + 1],
                     DecisionForLine(s.diffGroups, s.mergeDecisions, i))

KeyPressed(key) == keydown(State, key, FALSE, FALSE, <<>>, <<>>)

\* C9: with the popup open on a group of any kind, key 1 records a decision under
\* which the merged output holds the original side of the group and not its modified
\* side, and key 2 a decision under which it holds the modified side and not the
\* original side.
C9_KeysChooseSides ==
  \A g \in 1..Len(diffGroups) :
    PopupOnUndecidedGroup(g) =>
      \A i \in LineSet(diffGroups[g]) :
        /\ EmittedFor(KeyPressed("1"), i) = OriginalSideOf(diffResult.diff[i + 1])
        /\ EmittedFor(KeyPressed("2"), i) = ModifiedSideOf(diffResult.diff[i + 1])

\* the position of the group before (direction -1) or after (direction 1) position p
\* among n groups, with wrap-around
NeighbourGroup(p, direction, n) == (p + direction + n) % n

\* C10: in the diff view with no popup open and n >= 1 groups, Shift+ArrowUp moves
\* currentGroupPosition from p >= 0 to p - 1 (from 0 to n - 1) and Shift+ArrowDown to
\* p + 1 (from n - 1 to 0), exactly as the keys K and J do.
C10_ShiftArrowsMoveByGroup ==
  (~diffSectionHidden /\ popupHidden /\ Len(diffGroups) >= 1 /\ currentGroupPosition >= 0) =>
    /\ keydown(State, "ArrowUp", TRUE, FALSE, <<>>, <<>>).currentGroupPosition
         = NeighbourGroup(currentGroupPosition, -1, Len(diffGroups))
    /\ keydown(State, "ArrowDown", TRUE, FALSE, <<>>, <<>>).currentGroupPosition
         = NeighbourGroup(currentGroupPosition, 1, Len(diffGroups))
    /\ KeyPressed("K").currentGroupPosition
         = NeighbourGroup(currentGroupPosition, -1, Len(diffGroups))
    /\ KeyPressed("J").currentGroupPosition
         = NeighbourGroup(currentGroupPosition, 1, Len(diffGroups))

(***************************************************************************)
(* Properties of the similarity scorer.                                    *)
(***************************************************************************)
\* the edit distance with unit costs, by its recurrence: the distance D(i, j) between
\* the first i characters of a and the first j characters of b is the least of
\* D(i-1, j) + 1, D(i, j-1) + 1 and D(i-1, j-1) + (0 if a[i] = b[j], else 1).
\* EditRow extends row, which holds D(i, 0..j-1), from above == D(i-1, 0..Len(b)).
RECURSIVE EditRow(_, _, _, _, _)
EditRow(above, ai, b, j, row) ==
  IF j > Len(b) THEN row
  ELSE EditRow(above, ai, b, j + 1,
         Append(row, Min3(above[j + 1] + 1, row[j] + 1,
                          above[j] + (IF ai = b[j] THEN 0 ELSE 1))))

RECURSIVE EditRows(_, _, _, _)
EditRows(a, b, i, above) ==
  IF i > Len(a) THEN above
  ELSE LET row == EditRow(above, a[i], b, 1, <<i>>)
       IN  IF Len(row) > 0 THEN EditRows(a, b, i + 1, row) ELSE row

EditDistance(a, b) == EditRows(a, b, 1, [j \in 1..(Len(b) + 1) |-> j - 1])[Len(b) + 1]

\* C24: similarityRatio(a, a) is 1 for every a, the empty string included; it is 0
\* when exactly one of the strings is empty; for all a, b (not both empty) it equals
\* 1 - levenshtein(a, b) / max(|a|, |b|), and it lies between 0 and 1.
C24_SimilarityRatio ==
  lastOp.op = "similarityRatio" =>
    /\ seqA = seqB => rawDiff = Ratio(1, 1)
    /\ ((seqA = <<>>) # (seqB = <<>>)) => rawDiff = Ratio(0, 1)
    /\ (seqA # <<>> \/ seqB # <<>>) =>
         rawDiff = Ratio(Max2(Len(seqA), Len(seqB)) - EditDistance(seqA, seqB),
                         Max2(Len(seqA), Len(seqB)))
    /\ RatGE(rawDiff, Ratio(0, 1)) /\ RatGE(Ratio(1, 1), rawDiff)

\* the ratio of two different strings of different lengths that share characters
C24_Witness ==
  /\ lastOp.op = "similarityRatio"
  /\ Len(seqA) > Len(seqB) /\ Len(seqB) > 1
  /\ RatGT(rawDiff, Ratio(0, 1)) /\ RatGT(Ratio(1, 1), rawDiff)
  /\ EditDistance(seqA, seqB) > Len(seqA) - Len(seqB)

\* a.trim().replace(/\s+/g, ' ')
Normalized(line) == CollapseSpaces(Trim(line))

\* the first min(10, shorter length) characters of the two normalized lines are the same
SharedStart(normA, normB) ==
  SubSeq(normA, 1, Min2(10, Min2(Len(normA), Len(normB))))
    = SubSeq(normB, 1, Min2(10, Min2(Len(normA), Len(normB))))

\* the two lines have non-empty, different normalized forms that start the same
StartsAlike(a, b) ==
  /\ Normalized(a) # <<>> /\ Normalized(b) # <<>>
  /\ Normalized(a) # Normalized(b)
  /\ SharedStart(Normalized(a), Normalized(b))

FlooredAtHalf(result) == RatGE(result.ratio, Ratio(1, 2)) /\ result.similar

\* C21: for two lines whose normalized forms are non-empty and different and share
\* their first min(10, shorter length) characters, areSimilar returns a ratio of at
\* least 0.5 (similar at the default threshold), whatever the length of the shorter
\* line.
C21_SharedStartFloorsRatio ==
  (lastOp.op = "areSimilar" /\ StartsAlike(seqA, seqB)) => FlooredAtHalf(rawDiff)

\* C21 as the code has it: the floor applies when the shorter normalized line has
\* more than 3 characters.
C21_LongSharedStartFloorsRatio ==
  (lastOp.op = "areSimilar" /\ StartsAlike(seqA, seqB)
   /\ Min2(Len(Normalized(seqA)), Len(Normalized(seqB))) > 3) => FlooredAtHalf(rawDiff)

\* a line of four characters against a line that continues it: the ratio of the edit
\* distance is below 0.5 and the result is 0.5
C21_Witness ==
  /\ lastOp.op = "areSimilar"
  /\ StartsAlike(seqA, seqB)
  /\ Len(Normalized(seqA)) = 4
  /\ Len(seqA) > 4
  /\ RatGT(Ratio(1, 2), similarityRatio(Normalized(seqA), Normalized(seqB)))
  /\ rawDiff.ratio = Ratio(1, 2)

(***************************************************************************)
(* Properties of the matching of blocks.                                   *)
(***************************************************************************)
\* the pairs (i, j) of removed and added indices that no match before the k-th uses
FreePairs(matches, k, nRemoved, nAdded) ==
  {pair \in (0..(nRemoved - 1)) \X (0..(nAdded - 1)) :
     \A n \in 1..(k - 1) : matches[n].removedIdx # pair[1] /\ matches[n].addedIdx # pair[2]}

\* row-major order: smallest i, then smallest j
RowMajorLE(p, q) == p[1] < q[1] \/ (p[1] = q[1] /\ p[2] <= q[2])

SameRatio(r, s) == RatGE(r, s) /\ RatGE(s, r)

\* the k-th match is a free pair of the highest similarity, the first such pair in
\* row-major order, and its similarity is above 0
RoundSelectsBest(sim, matches, k) ==
  LET free == FreePairs(matches, k, Len(seqA), Len(seqB))
      pick == <<matches[k].removedIdx, matches[k].addedIdx>>
  IN  /\ pick \in free
      /\ SameRatio(matches[k].ratio, sim[pick[1] + 1][pick[2] + 1])
      /\ RatGT(matches[k].ratio, Ratio(0, 1))
      /\ \A p \in free :
           /\ RatGE(matches[k].ratio, sim[p[1] + 1][p[2] + 1])
           /\ SameRatio(matches[k].ratio, sim[p[1] + 1][p[2] + 1]) => RowMajorLE(pick, p)

\* after the last match one side is fully used or every free pair has similarity 0
RoundsStopAtZero(sim, matches) ==
  \A p \in FreePairs(matches, Len(matches) + 1, Len(seqA), Len(seqB)) :
    SameRatio(sim[p[1] + 1][p[2] + 1], Ratio(0, 1))

IsSubsequenceOf(entries, block) ==
  /\ \A k \in 1..Len(entries) : \E n \in 1..Len(block) : block[n] = entries[k]
  /\ \A k \in 1..(Len(entries) - 1) :
       \E m, n \in 1..Len(block) : m < n /\ block[m] = entries[k] /\ block[n] = entries[k + 1]

\* a modified entry carries the left side of one removed entry and the right side of
\* one added entry
PairsSides(entry, removed, added) ==
  /\ \E n \in 1..Len(removed) :
       removed[n].leftLine = entry.leftLine /\ removed[n].leftContent = entry.leftContent
  /\ \E n \in 1..Len(added) :
       added[n].rightLine = entry.rightLine /\ added[n].rightContent = entry.rightContent

\* out is the unmatched removed entries in their order, then the modified entries by
\* the position of their removed side, then the unmatched added entries in their
\* order, and every line of the two blocks is in out once
OrderedBlockOutput(removed, added, out) ==
  LET rem == EntriesOfTypes(out, {"removed"})
      mod == EntriesOfTypes(out, {"modified"})
      add == EntriesOfTypes(out, {"added"})
  IN  /\ out = rem \o mod \o add
      /\ IsSubsequenceOf(rem, removed)
      /\ IsSubsequenceOf(add, added)
      /\ \A k \in 1..Len(mod) : PairsSides(mod[k], removed, added)
      /\ \A k \in 1..(Len(mod) - 1) : mod[k].leftLine < mod[k + 1].leftLine
      /\ Len(rem) + Len(mod) = Len(removed)
      /\ Len(add) + Len(mod) = Len(added)
      /\ {out[k].leftLine : k \in 1..Len(out)} \ {Null} = {removed[k].leftLine : k \in 1..Len(removed)}
      /\ {out[k].rightLine : k \in 1..Len(out)} \ {Null} = {added[k].rightLine : k \in 1..Len(added)}

\* C23: for a removed block immediately followed by an added block the output is the
\* unmatched removed entries in their original order, then the modified entries
\* ordered by the position of their removed side, then the unmatched added entries
\* in their original order; a removed-only or added-only run, and an added run
\* followed by a removed run, pass through with kinds and order unchanged.
C23_BlockOutputOrder ==
  lastOp.op = "detectModifications" =>
    LET raw == RawDiffOf(rawDiff.layout, seqA, seqB)
        out == rawDiff.result
    IN  IF seqA # <<>> /\ seqB # <<>> /\ rawDiff.layout = "RA"
        THEN OrderedBlockOutput(RemovedBlock(seqA, 1), AddedBlock(seqB, 1), out)
        ELSE IF seqA # <<>> /\ seqB # <<>> /\ rawDiff.layout = "URAU"
        THEN /\ Len(out) >= 2
             /\ out[1] = raw[1]
             /\ out[Len(out)] = raw[Len(raw)]
             /\ OrderedBlockOutput(RemovedBlock(seqA, 2), AddedBlock(seqB, 2),
                                   SubSeq(out, 2, Len(out) - 1))
        ELSE out = raw

\* a block of three removed and three added lines: one removed line and one added
\* line stay unmatched around two modified entries whose right sides are not in the
\* order of the added block
C23_Witness ==
  /\ lastOp.op = "detectModifications"
  /\ rawDiff.layout = "RA"
  /\ Len(seqA) = 3 /\ Len(seqB) = 3
  /\ TypesOf(rawDiff.result) = <<"removed", "modified", "modified", "added">>
  /\ rawDiff.result[2].rightLine > rawDiff.result[3].rightLine

(***************************************************************************)
(* Properties of the default merge of a comparison.                        *)
(***************************************************************************)
\* the right line numbers of the entries that have a right side, in diff order
RECURSIVE RightLinesOf(_)
RightLinesOf(diff) ==
  IF diff = <<>> THEN <<>>
  ELSE (IF Head(diff).rightLine = Null THEN <<>> ELSE <<Head(diff).rightLine>>)
       \o RightLinesOf(Tail(diff))

\* C25: with no merge decision set, generateMergedCSS applied to
\* computeDiff(original, modified) returns exactly the modified text: the right-side
\* lines of the final diff appear in increasing rightLine order, each exactly once.
C25_DefaultMergeIsModifiedText ==
  (diffResult.present /\ diffResult.diff = computeDiff(seqA, seqB).diff
   /\ mergeDecisions = EmptyMap) =>
    /\ generateMergedCSS(State) = seqB
    /\ \A k \in 1..(Len(RightLinesOf(diffResult.diff)) - 1) :
         RightLinesOf(diffResult.diff)[k] < RightLinesOf(diffResult.diff)[k + 1]
    /\ Len(RightLinesOf(diffResult.diff)) = Len(Split(seqB))

\* the left line numbers of the entries that have a left side, in diff order
RECURSIVE LeftLinesOf(_)
LeftLinesOf(diff) ==
  IF diff = <<>> THEN <<>>
  ELSE (IF Head(diff).leftLine = Null THEN <<>> ELSE <<Head(diff).leftLine>>)
       \o LeftLinesOf(Tail(diff))

\* numbers holds each of the line numbers 1..count exactly once
EachLineOnce(numbers, count) ==
  /\ Len(numbers) = count
  /\ {numbers[k] : k \in 1..Len(numbers)} = 1..count

\* C28: the result of computeDiff satisfies unchanged + removed + modified =
\* totalOriginal and unchanged + added + modified = totalModified; every original line
\* number occurs exactly once as a leftLine and every modified line number exactly
\* once as a rightLine.
C28_StatsAccountForEveryLine ==
  (diffResult.present /\ diffResult.diff = computeDiff(seqA, seqB).diff) =>
    /\ diffResult.stats.totalOriginal = Len(Split(seqA))
    /\ diffResult.stats.totalModified = Len(Split(seqB))
    /\ diffResult.stats.unchanged + diffResult.stats.removed + diffResult.stats.modified
         = diffResult.stats.totalOriginal
    /\ diffResult.stats.unchanged + diffResult.stats.added + diffResult.stats.modified
         = diffResult.stats.totalModified
    /\ EachLineOnce(LeftLinesOf(diffResult.diff), diffResult.stats.totalOriginal)
    /\ EachLineOnce(RightLinesOf(diffResult.diff), diffResult.stats.totalModified)

\* a comparison whose removed block of two lines met an added line: one pair became
\* a modified entry and the other removed line stayed
C28_Witness ==
  /\ diffResult.present
  /\ diffResult.diff = computeDiff(seqA, seqB).diff
  /\ diffResult.stats.modified = 1
  /\ diffResult.stats.removed = 1
  /\ diffResult.stats.totalOriginal = 2

(***************************************************************************)
(* Properties of the auto-advance of the merge popup.                      *)
(***************************************************************************)
\* the callback at the head of timers runs and finds a group at its index, so that
\* openMergePopup goes on to show the popup
CallbackOpensPopup ==
  /\ lastOp'.op = "timeout"
  /\ timers # <<>>
  /\ Head(timers) < Len(diffGroups)
  /\ ~popupHidden'

\* C26: whenever the delayed callback scheduled by applyMergeDecision opens the merge
\* popup, the group it opens still has no decision and belongs to the current diff,
\* whatever the user did during the delay; a popup the user closed during the delay
\* stays closed.  (The callback keeps the index findNextUnresolvedGroup returned;
\* the formula states what the claim requires of the state the callback leaves.)
C26_DelayedOpenRespectsUser ==
  [][CallbackOpensPopup =>
       /\ ~popupHidden
       /\ diffResult'.present
       /\ activeGroupId' = diffGroups'[Head(timers) + 1].id
       /\ ~MapHas(mergeDecisions', activeGroupId')]_vars

\* every group of the current diff has a decision
EveryGroupDecided == \A g \in 1..Len(diffGroups) : MapHas(mergeDecisions, diffGroups[g].id)

\* the index of the group with the given id
GroupIndexOfId(groupId) == CHOOSE i \in 0..(Len(diffGroups) - 1) : diffGroups[i + 1].id = groupId

\* index is the first one, going round from the index after current, whose group has
\* no decision
FirstUnresolvedAfter(current, index) ==
  /\ index # current
  /\ ~MapHas(mergeDecisions, diffGroups[index + 1].id)
  /\ \A i \in 0..(Len(diffGroups) - 1) :
       ((i - current) % Len(diffGroups) < (index - current) % Len(diffGroups) /\ i # current)
         => MapHas(mergeDecisions, diffGroups[i + 1].id)

\* C27: starting with the popup open on any group in split view, if the user chooses
\* one decision for each undecided group the popup shows and does nothing else, then
\* auto-advance opens the first unresolved group in cyclic order after the group
\* just decided, never that group itself; eventually every group has a decision and
\* the popup is then closed with activeGroupId null.
C27_AutoAdvanceResolvesEveryGroup ==
  /\ [][(lastOp'.op = "timeout") =>
          /\ ~popupHidden'
          /\ activeGroupId' # activeGroupId
          /\ FirstUnresolvedAfter(GroupIndexOfId(activeGroupId), GroupIndexOfId(activeGroupId'))]_vars
  /\ [](EveryGroupDecided => <>[](popupHidden /\ activeGroupId = Null))
  /\ <>EveryGroupDecided

\* three groups, the popup first opened on the second: every group is decided and the
\* popup closed after the callbacks opened the third group and then the first
C27_Witness ==
  /\ Len(diffGroups) = 3
  /\ EveryGroupDecided
  /\ popupHidden /\ activeGroupId = Null
  /\ lastOp.op = "popupAction"
  /\ currentGroupPosition = 0

(***************************************************************************)
(* Properties of the two navigation positions.                             *)
(***************************************************************************)
\* C29: after any sequence of navigateDiff, navigateGroup and openMergePopup in split
\* view, whenever currentDiffPosition and currentGroupPosition are both >= 0, the line
\* diffIndices[currentDiffPosition] belongs to the group diffGroups[currentGroupPosition].
C29_LineAndGroupPositionsAgree ==
  (currentView = "split" /\ currentDiffPosition >= 0 /\ currentGroupPosition >= 0) =>
    /\ currentDiffPosition < Len(diffIndices)
    /\ currentGroupPosition < Len(diffGroups)
    /\ Includes(diffGroups[currentGroupPosition + 1].lines, diffIndices[currentDiffPosition + 1])

====
